---------------------------- MODULE Spec2Model ----------------------------
(***************************************************************************)
(* A model of the agent session core of VoiceApp:                          *)
(*   backend/app/agents/base_agent.py   Message, BaseAgent                 *)
(*   backend/app/agents/chat_agent.py   ChatAgent                          *)
(*   backend/app/agents/voice_agent.py  VoiceAgent                         *)
(*   backend/app/utils/helpers.py       calculate_token_estimate,          *)
(*                                      generate_message_id, chunk_text,   *)
(*                                      format_tool_output, ...            *)
(*   backend/app/llm/llm_factory.py     LLMFactory                         *)
(*   backend/app/mcp/tools.py           MCPTool, MCPToolRegistry,          *)
(*                                      CalculatorTool, FileReadTool       *)
(*   backend/app/mcp/server.py          MCPServer                          *)
(*   backend/app/api/routes.py          get_agent, chat                    *)
(*   backend/app/api/websocket.py       ConnectionManager,                 *)
(*                                      websocket_endpoint                 *)
(*   backend/app/rag/retriever.py       RAGRetriever.retrieve_with_context *)
(*                                                                         *)
(* Text is a TLA+ string; len() is Len.  Where single characters matter    *)
(* (expressions, paths) a str is the sequence of its characters.  In Spec, *)
(* SpecScript and SpecAgent a session's calls are issued one at a time;    *)
(* SpecRest has the requests of the REST endpoint interleave at their      *)
(* awaits, SpecSessions the calls on two agents.  total_cost is kept in    *)
(* micro-dollars (the price table's rates per 1000 tokens are whole        *)
(* micro-dollars per token).                                               *)
(***************************************************************************)
EXTENDS Integers, Sequences, FiniteSets, TLC

VARIABLES
    \* ---- BaseAgent / ChatAgent fields
    system_prompt,          \* self.system_prompt
    max_history,            \* self.max_history
    max_tokens,             \* self.max_tokens
    conversation_history,   \* self.conversation_history: sequence of Message
    total_tokens_used,      \* self.total_tokens_used
    total_cost,             \* self.total_cost, in micro-dollars
    \* ---- the call in flight on the session
    pc,                     \* "idle", "chat" (process awaits client.chat),
                            \* "stream" (stream_response yields chunks)
    context,                \* the value of the last get_conversation_context call
    full_response,          \* stream_response's accumulator
    yielded,                \* the chunks stream_response has yielded, in order
    outcome,                \* how the last call ended: "none", "returned", "raised",
                            \* "abandoned"
    \* ---- what the last operation was called with
    op,                     \* its name
    before,                 \* conversation_history when it was called
    turn,                   \* << >> or <<m>>: the Message its add_message created
    budget,                 \* the max_tokens argument it passed (None or Some(n))
    calls,                  \* the add_message calls of a scripted run, in order
    cleared_all,            \* clear_history(keep_system=False) has been called
    \* ---- LLMFactory and settings
    api_keys,               \* providers whose API key settings holds
    clients,                \* LLMFactory._clients: providers with a cached client
    default_provider,       \* LLMFactory._default_provider
    fpc,                    \* chat_with_fallback: "idle", "primary", "fallback", "done"
    preferred,              \* its provider argument (None or Some(name))
    chat_calls,             \* the providers whose chat() it has called, in order
    chat_failed,            \* the providers whose chat() raised during this call
    foutcome,               \* "none", "returned", or the error raised
    \* ---- ChatAgent's provider client
    llm_provider,           \* self.llm_provider (None or Some(name))
    llm_client,             \* self.llm_client (None or Some(provider of the client))
    response,               \* what the last client.chat returned (None or Some(r))
    \* ---- MCPToolRegistry and MCPServer
    tools,                  \* MCPToolRegistry.tools, the ordered dict it is: the tools in insertion order
    tool_calls,             \* the batch execute_tools was called with
    results,                \* execute_tools' results list
    tpc,                    \* execute_tools: "idle", "loop", "done"
    ti,                     \* the index of the tool call its loop is at
    texc,                   \* the exception that left execute_tools (None or Some(msg))
    last_call,              \* the last execute_tool call and what it did (None or Some)
    \* ---- the REST chat endpoint
    agents,                 \* routes._agents: agent_id -> that agent's history
    requests,               \* the chat requests being served: id -> handler state
    \* ---- several agents side by side
    sessions,               \* agent id -> that agent's fields
    actor,                  \* the agent the last operation was called on (None or Some(id))
    \* ---- VoiceAgent
    tts_client,             \* self.tts_client (None or Some("ElevenLabsClient"))
    voice_result,           \* what VoiceAgent.process returned (None or Some(dict))
    \* ---- the built-in tools
    builtin_call,           \* the last execute of a built-in tool and what it did
    registered,             \* the tools passed to register since construction, in call order
    generate_audio,         \* kwargs.get("generate_audio", True) of the running voice process
    elevenlabs_api_key,     \* whether settings.elevenlabs_api_key is set
    \* ---- the clock that message ids are made from
    clock,                  \* what datetime.now() reads, in microseconds after the first reading
    \* ---- the provider invocation of process and stream_response
    invocation,             \* the last client.chat / client.stream_response call (None or Some(arguments))
    \* ---- RAGRetriever.retrieve_with_context
    retrieved,              \* what self.retrieve returned: the documents found, best first
    max_context_length,     \* the max_context_length argument
    rag_context,            \* what retrieve_with_context returned (None or Some(dict))
    \* ---- helpers.chunk_text
    ctext,                  \* the text argument, as its characters
    chunk_size,             \* the chunk_size argument
    overlap,                \* the overlap argument
    cstart,                 \* the local start
    chunk_list,             \* the local chunks; the list returned once cpc is "done"
    cpc,                    \* "idle", "loop" (inside the while), "done"
    \* ---- api/websocket.py
    active_connections,     \* manager.active_connections, the dict as CPython keeps it: its entries in insertion order, a deleted one leaving a hole
    handlers,               \* websocket -> the websocket_endpoint call serving it
    bcast,                  \* the manager.broadcast call: where it stands, its dict iterator, its disconnected list
    ws_sent,                \* the last send_personal_message: by which handler, on which websocket
    ws_removed              \* the last disconnect: by which handler, whose registration went

session_vars == <<system_prompt, max_history, max_tokens, conversation_history,
                  total_tokens_used, total_cost, pc, context, full_response, yielded,
                  outcome, op, before, turn, budget, calls, cleared_all>>
factory_vars == <<api_keys, clients, default_provider, fpc, preferred,
                  chat_calls, chat_failed, foutcome>>
agent_vars == <<llm_provider, llm_client, response>>
tool_vars == <<tools, tool_calls, results, tpc, ti, texc, last_call>>
rest_vars == <<agents, requests>>
clock_vars == <<clock, invocation>>
rag_vars == <<retrieved, max_context_length, rag_context>>
chunk_vars == <<ctext, chunk_size, overlap, cstart, chunk_list, cpc>>
ws_vars == <<active_connections, handlers, bcast, ws_sent, ws_removed>>
more_vars == <<clock_vars, rag_vars, chunk_vars, ws_vars>>
aux_own_vars == <<sessions, actor, tts_client, voice_result, builtin_call,
                  registered, generate_audio, elevenlabs_api_key>>
aux_vars == <<aux_own_vars, more_vars>>
ext_vars == <<agent_vars, tool_vars, rest_vars, aux_vars>>
vars == <<session_vars, factory_vars, ext_vars>>

-----------------------------------------------------------------------------
(* Bounds of the model *)

MaxLen == 3             \* no call is started that could make the history longer
MaxHistoryBound == 2    \* max_history is drawn from 1..MaxHistoryBound
MaxBudget == 2          \* token budgets are drawn from 0..MaxBudget
MaxCalls == 4           \* add_message calls of a scripted run
MaxTokensUsed == 15     \* total_tokens_used stops growing past this
MaxStreamLen == 8       \* a stream stops before its text grows past this
MaxBatch == 2           \* tool calls in one execute_tools batch
MaxRequests == 2         \* chat requests the REST endpoint is given
MaxRegister == 3         \* register calls on the tool registry
MaxExpr == 3             \* characters of a calculator expression
MaxPath == 3             \* components of a file_path
MaxClock == 3            \* readings the clock advances through
MaxDocs == 3             \* documents a retrieval finds
MaxContextLength == 6    \* max_context_length is drawn from 0..MaxContextLength
MaxText == 4             \* characters of a text given to chunk_text
MaxChunkSize == 3        \* chunk_size is drawn from 1..MaxChunkSize
MaxOverlap == 3          \* overlap is drawn from 0..MaxOverlap
\* the chunks memory has room for: more than any chunk_text call that
\* returns appends for a text of MaxText characters
MaxChunks == MaxText + 2

-----------------------------------------------------------------------------
(* Python values *)

None == << >>
Some(x) == <<x>>

\* Python's "x or y" for an Optional[int] x: y when x is None or 0
IntOr(x, y) == IF x = None \/ x = Some(0) THEN y ELSE x[1]

\* Python's "x or y" for an Optional[str] x: y when x is None or ""
StrOr(x, y) == IF x = None \/ x = Some("") THEN y ELSE x[1]

\* Python's s[k:] for any integer k
PySliceFrom(s, k) ==
    LET start == IF k < 0 THEN (IF Len(s) + k < 0 THEN 0 ELSE Len(s) + k)
                          ELSE (IF k > Len(s) THEN Len(s) ELSE k)
    IN  SubSeq(s, start + 1, Len(s))

-----------------------------------------------------------------------------
(* helpers.py *)

calculate_token_estimate(text) == Len(text) \div 4

\* calculate_cost(tokens, price_per_1k_tokens), in micro-dollars, the price
\* given in micro-dollars per token (0.003 dollars per 1000 tokens is 3)
calculate_cost(tokens, micro_per_token) == tokens * micro_per_token

-----------------------------------------------------------------------------
(* base_agent.py *)

Message(role, content) ==
    [role |-> role, content |-> content,
     token_count |-> calculate_token_estimate(content)]

\* hashlib.md5(t.isoformat().encode()).hexdigest()[:16] for the readings
\* t = 2024-01-01T00:00:00 plus 0, 1, 2, ... microseconds
Md5Prefix ==
    <<"b3f823fd0a68e9e8", "663cba177197dae5", "6f85138598cae855", "72f3d4c7e2e24fc9",
      "348af815f62234ec", "54489cb937b9ef9c", "da6d2dfaff513dbe", "d66b1afe1be3af5f",
      "ec0ea498fc390b51", "a7b2c069b2fe3342">>

\* helpers.generate_message_id() when datetime.now() reads now
generate_message_id(now) == Md5Prefix[now + 1]

\* Message(role, content) with its id, created when datetime.now() reads now
MessageAt(role, content, now) ==
    [id |-> generate_message_id(now), role |-> role, content |-> content,
     token_count |-> calculate_token_estimate(content)]

IsSystem(m) == m.role = "system"
NotSystem(m) == m.role # "system"

\* the trim of add_message with the naive cut "keep the last max_history"
trim_history_recent(h, mh) ==
    IF Len(h) > mh THEN PySliceFrom(h, -mh) ELSE h

\* the trim of add_message keeping one non-system turn too many
trim_history_off_by_one(h, mh) ==
    IF Len(h) > mh
    THEN LET system_msgs == SelectSeq(h, IsSystem)
             other_msgs == SelectSeq(h, NotSystem)
         IN  system_msgs \o PySliceFrom(other_msgs, -mh + Len(system_msgs) - 1)
    ELSE h

\* add_message, lines 98-103: "Trim history if too long"
trim_history(h, mh) ==
    IF Len(h) > mh
    THEN LET system_msgs == SelectSeq(h, IsSystem)
             other_msgs == SelectSeq(h, NotSystem)
         IN  system_msgs \o PySliceFrom(other_msgs, -mh + Len(system_msgs))
    ELSE h

\* an add_message that puts the new turn in front
add_message_front(h, mh, role, content) ==
    trim_history(<<Message(role, content)>> \o h, mh)

\* add_message: the history after self.add_message(role, content)
add_message(h, mh, role, content) ==
    trim_history(Append(h, Message(role, content)), mh)

RECURSIVE context_walk_skip(_, _, _, _, _)
\* the loop of get_conversation_context with "continue" in place of "break"
context_walk_skip(h, i, limit, current_tokens, ctx) ==
    IF i = 0 THEN ctx
    ELSE IF current_tokens + h[i].token_count > limit
    THEN context_walk_skip(h, i - 1, limit, current_tokens, ctx)
    ELSE context_walk_skip(h, i - 1, limit, current_tokens + h[i].token_count,
                           <<[role |-> h[i].role, content |-> h[i].content]>> \o ctx)

RECURSIVE context_walk_newest(_, _, _, _, _)
\* the loop of get_conversation_context never breaking at the newest turn
context_walk_newest(h, i, limit, current_tokens, ctx) ==
    IF i = 0 THEN ctx
    ELSE IF i < Len(h) /\ current_tokens + h[i].token_count > limit THEN ctx
    ELSE context_walk_newest(h, i - 1, limit, current_tokens + h[i].token_count,
                             <<[role |-> h[i].role, content |-> h[i].content]>> \o ctx)

RECURSIVE context_walk(_, _, _, _, _)
\* the loop of get_conversation_context over reversed(history), at index i
context_walk(h, i, limit, current_tokens, ctx) ==
    IF i = 0 THEN ctx
    ELSE IF current_tokens + h[i].token_count > limit THEN ctx
    ELSE context_walk(h, i - 1, limit, current_tokens + h[i].token_count,
                      <<[role |-> h[i].role, content |-> h[i].content]>> \o ctx)

get_conversation_context(h, self_max_tokens, arg) ==
    context_walk(h, Len(h), IntOr(arg, self_max_tokens), 0, << >>)

\* clear_history ignoring keep_system
clear_history_all(h, keep_system) == << >>

\* clear_history keeping the first system turn only
clear_history_first(h, keep_system) ==
    IF keep_system THEN SubSeq(SelectSeq(h, IsSystem), 1, 1) ELSE << >>

\* clear_history(keep_system)
clear_history(h, keep_system) ==
    IF keep_system THEN SelectSeq(h, IsSystem) ELSE << >>

-----------------------------------------------------------------------------
(* rag/retriever.py *)

\* a document as retrieve returns it
Retrieved(id, document) == [id |-> id, document |-> document]

RECURSIVE join_parts(_)
\* "\n\n".join(context_parts)
join_parts(parts) ==
    IF parts = << >> THEN ""
    ELSE IF Len(parts) = 1 THEN parts[1]
    ELSE parts[1] \o "\n\n" \o join_parts(Tail(parts))

RECURSIVE context_loop(_, _, _, _, _, _)
\* the for loop of retrieve_with_context over results from index i
context_loop(found, i, max_length, context_parts, sources, current_length) ==
    IF i > Len(found) \/ current_length + Len(found[i].document) > max_length
    THEN [context_parts |-> context_parts, sources |-> sources]
    ELSE context_loop(found, i + 1, max_length,
                      Append(context_parts, found[i].document),
                      Append(sources, [id |-> found[i].id]),
                      current_length + Len(found[i].document))

\* RAGRetriever.retrieve_with_context once self.retrieve has returned its results
retrieve_with_context(found, max_length) ==
    LET built == context_loop(found, 1, max_length, << >>, << >>, 0)
    IN  [context |-> join_parts(built.context_parts),
         sources |-> built.sources,
         num_sources |-> Len(built.sources)]

-----------------------------------------------------------------------------
(* chat_agent.py *)

default_prompt ==
    "You are a helpful, knowledgeable, and friendly AI assistant. Provide accurate, concise, and helpful responses to user queries."

base_default_prompt == "You are a helpful AI assistant."

\* a call that passes the system prompt whatever the context holds
system_prompt_always(ctx, prompt) == Some(prompt)

\* the system_prompt argument of client.chat and client.stream_response:
\* self.system_prompt if not any(m.get("role") == "system" for m in context)
\* else None
system_prompt_argument(ctx, prompt) ==
    IF \E i \in 1..Len(ctx) : ctx[i].role = "system" THEN None ELSE Some(prompt)

\* the arguments of a provider call
Invocation(by, messages, system_arg) ==
    [by |-> by, messages |-> messages, system_prompt |-> system_arg]

error_msg == "I apologize, but I encountered an error processing your request."

\* ChatAgent.__init__ then BaseAgent.__init__: the prompt the session keeps
init_system_prompt(arg) == StrOr(Some(StrOr(arg, default_prompt)), base_default_prompt)

\* BaseAgent.__init__: the history after construction
init_history(prompt) == IF prompt # "" THEN <<Message("system", prompt)>> ELSE << >>

\* "claude" in model.lower() and "gpt-4" in model.lower(), over the model
\* names the responses of this model carry
ClaudeModels == {"claude-3-5-sonnet-20241022"}
Gpt4Models == {"gpt-4-turbo-preview"}

\* a cost that prices a model it does not know at the gpt-4 rates
response_cost_unknown_priced(r) ==
    IF r.model \in ClaudeModels
    THEN calculate_cost(r.input_tokens, 3) + calculate_cost(r.output_tokens, 15)
    ELSE calculate_cost(r.input_tokens, 10) + calculate_cost(r.output_tokens, 30)

\* the cost of a response, lines 111-116 of process
response_cost(r) ==
    IF r.model \in ClaudeModels
    THEN calculate_cost(r.input_tokens, 3) + calculate_cost(r.output_tokens, 15)
    ELSE IF r.model \in Gpt4Models
    THEN calculate_cost(r.input_tokens, 10) + calculate_cost(r.output_tokens, 30)
    ELSE 0

-----------------------------------------------------------------------------
(* llm_factory.py *)

\* LLMProvider
Providers == {"claude", "openai"}

\* a call of the factory ends with a client and the cache it leaves, or raises
Client(provider, cache) == [ok |-> TRUE, provider |-> provider, error |-> "", clients |-> cache]
Raised(error, cache) == [ok |-> FALSE, provider |-> "", error |-> error, clients |-> cache]

\* LLMFactory.get_client(provider)
get_client(provider_arg, keys, cache, default) ==
    LET provider == StrOr(provider_arg, default)
    IN  IF provider \notin cache
        THEN IF provider = "claude"
             THEN IF "claude" \notin keys
                  THEN Raised("Anthropic API key not configured", cache)
                  ELSE Client(provider, cache \cup {provider})
             ELSE IF provider = "openai"
             THEN IF "openai" \notin keys
                  THEN Raised("OpenAI API key not configured", cache)
                  ELSE Client(provider, cache \cup {provider})
             ELSE Raised("Unknown LLM provider: " \o provider, cache)
        ELSE Client(provider, cache)

\* LLMFactory.get_available_providers()
get_available_providers(keys) ==
    (IF "claude" \in keys THEN <<"claude">> ELSE << >>)
    \o (IF "openai" \in keys THEN <<"openai">> ELSE << >>)

RECURSIVE fallback_loop(_, _, _, _, _)
\* the for loop of get_fallback_client from available[i] on, then its last line
fallback_loop(available, i, keys, cache, default) ==
    IF i > Len(available) THEN get_client(None, keys, cache, default)
    ELSE IF available[i] # default
              /\ get_client(Some(available[i]), keys, cache, default).ok
         THEN get_client(Some(available[i]), keys, cache, default)
         ELSE fallback_loop(available, i + 1, keys, cache, default)

\* get_fallback_client without its test for an empty list of providers
get_fallback_client_unchecked(keys, cache, default) ==
    fallback_loop(get_available_providers(keys), 1, keys, cache, default)

\* LLMFactory.get_fallback_client()
get_fallback_client(keys, cache, default) ==
    IF get_available_providers(keys) = << >>
    THEN Raised("No LLM providers configured", cache)
    ELSE fallback_loop(get_available_providers(keys), 1, keys, cache, default)

-----------------------------------------------------------------------------
(* mcp/tools.py, mcp/server.py *)

\* an output that reports success whatever the error
format_tool_output_always_success(tool_name, result, error) ==
    [tool |-> tool_name, result |-> result, error |-> error, success |-> TRUE]

\* helpers.format_tool_output(tool_name, result, error), without its timestamp
format_tool_output(tool_name, result, error) ==
    [tool |-> tool_name, result |-> result, error |-> error,
     success |-> (error = None)]

\* the names of the tools MCPToolRegistry.__init__ registers
BuiltinTools == {"web_search", "calculator", "file_read", "api_call", "database_query"}

\* a tool object: its class (type(tool).__name__) and the attributes
\* MCPTool.__init__ sets; parameters is the JSON schema, kept as the list
\* under its "required"
Tool(class, name, description, parameters) ==
    [class |-> class, name |-> name, description |-> description,
     parameters |-> parameters]

\* MCPTool(name, description, parameters): an instance of the base class
MCPTool(name, description, parameters) == Tool("MCPTool", name, description, parameters)

\* MCPTool.get_schema()
get_schema(tool) ==
    [name |-> tool.name, description |-> tool.description,
     input_schema |-> tool.parameters]

\* the tools _register_default_tools registers, in its order
DefaultTools ==
    <<Tool("WebSearchTool", "web_search", "Search the web for information", <<"query">>),
      Tool("CalculatorTool", "calculator", "Perform mathematical calculations",
           <<"expression">>),
      Tool("FileReadTool", "file_read", "Read contents of a file", <<"file_path">>),
      Tool("APICallTool", "api_call", "Make HTTP API call", <<"url">>),
      Tool("DatabaseQueryTool", "database_query", "Execute database query", <<"query">>)>>

\* the position of the tool of that name in the dict, 0 when it has none
index_of(items, name) ==
    IF \E i \in 1..Len(items) : items[i].name = name
    THEN CHOOSE i \in 1..Len(items) : items[i].name = name
    ELSE 0

\* a registry that keeps every registered tool
register_append(items, tool) == Append(items, tool)

\* MCPToolRegistry.register: self.tools[tool.name] = tool; a dict keeps a
\* key's position when its value is replaced
register(items, tool) ==
    IF index_of(items, tool.name) = 0
    THEN Append(items, tool)
    ELSE [items EXCEPT ![index_of(items, tool.name)] = tool]

\* MCPToolRegistry.get_tool: self.tools.get(name)
get_tool(items, name) ==
    IF index_of(items, name) = 0 THEN None ELSE Some(items[index_of(items, name)])

\* MCPToolRegistry.list_tools
list_tools(items) == [i \in 1..Len(items) |-> get_schema(items[i])]

\* ---- CalculatorTool.  A str is kept as the sequence of its characters.

RECURSIVE Text(_)
\* the str a sequence of characters spells
Text(chars) == IF chars = << >> THEN "" ELSE chars[1] \o Text(Tail(chars))

DigitChars == <<"0", "1", "2", "3", "4", "5", "6", "7", "8", "9">>
Digits == {DigitChars[i] : i \in 1..Len(DigitChars)}
\* int(c) of a digit
int(c) == (CHOOSE i \in 1..Len(DigitChars) : DigitChars[i] = c) - 1

\* set("0123456789+-*/()., ")
allowed_chars == Digits \cup {"+", "-", "*", "/", "(", ")", ".", ",", " "}

\* a filter that lets digits, operators, parentheses and the blank through
filter_strict == Digits \cup {"+", "-", "*", "/", "(", ")", " "}

\* Python values an expression evaluates to
PyInt(n) == [type |-> "int", items |-> <<n>>]
PyTuple(items) == [type |-> "tuple", items |-> items]

\* eval reads an expression left to right.  st is what it has just read:
\* nothing yet ("start"), a "+" that wants an operand ("op"), a comma
\* ("comma"), a digit of a number ("num"), blanks after a number ("numsp"),
\* or something that is no expression ("err").  items are the values of the
\* tuple's finished elements, acc the sum of the finished operands of the
\* element being read, num the number being read.
eval_start == [st |-> "start", tup |-> FALSE, items |-> << >>, acc |-> 0, num |-> 0]

\* one character more.  The expressions evaluated here are made of the
\* digits 1-9, "+", "," and the blank.
eval_step(s, c) ==
    IF s.st = "err" THEN s
    ELSE IF s.st \in {"start", "op", "comma"}
    THEN IF c \in Digits \ {"0"} THEN [s EXCEPT !.st = "num", !.num = int(c)]
         ELSE IF c = "+" THEN [s EXCEPT !.st = "op", !.num = 0]
         ELSE IF c = " " THEN s
         ELSE [s EXCEPT !.st = "err"]
    ELSE IF c \in Digits \ {"0"}
         THEN IF s.st = "num" THEN [s EXCEPT !.num = s.num * 10 + int(c)]
              ELSE [s EXCEPT !.st = "err"]
         ELSE IF c = " " THEN [s EXCEPT !.st = "numsp"]
         ELSE IF c = "+" THEN [s EXCEPT !.st = "op", !.acc = s.acc + s.num, !.num = 0]
         ELSE IF c = ","
         THEN [s EXCEPT !.st = "comma", !.tup = TRUE,
                        !.items = Append(s.items, s.acc + s.num),
                        !.acc = 0, !.num = 0]
         ELSE [s EXCEPT !.st = "err"]

RECURSIVE eval_run(_, _, _)
eval_run(s, expression, i) ==
    IF i > Len(expression) THEN s
    ELSE eval_run(eval_step(s, expression[i]), expression, i + 1)

\* eval(expression): the value, or the SyntaxError raised
eval(expression) ==
    LET s == eval_run(eval_start, expression, 1)
    IN  IF s.st \in {"num", "numsp"}
        THEN [ok |-> TRUE, error |-> "",
              value |-> IF s.tup THEN PyTuple(Append(s.items, s.acc + s.num))
                        ELSE PyInt(s.acc + s.num)]
        ELSE IF s.st = "comma"
        THEN [ok |-> TRUE, error |-> "", value |-> PyTuple(s.items)]
        ELSE [ok |-> FALSE, value |-> None,
              error |-> IF \A i \in 1..Len(expression) : expression[i] = " "
                        THEN "invalid syntax (<string>, line 0)"
                        ELSE "invalid syntax (<string>, line 1)"]

\* what an execute of a built-in tool was given, what it returned, and
\* whether it reached eval or open
BuiltinCall(tool, input, out, evaluated, opened) ==
    [tool |-> tool, input |-> input, out |-> out, evaluated |-> evaluated,
     opened |-> opened]

\* CalculatorTool.execute with filter_strict for allowed_chars
calculator_execute_strict(expression) ==
    IF \E i \in 1..Len(expression) : expression[i] \notin filter_strict
    THEN BuiltinCall("calculator", expression,
                     format_tool_output("calculator", None,
                                        Some("Invalid characters in expression")),
                     FALSE, FALSE)
    ELSE IF eval(expression).ok
    THEN BuiltinCall("calculator", expression,
                     format_tool_output("calculator",
                         Some([expression |-> Text(expression),
                               result |-> eval(expression).value]), None),
                     TRUE, FALSE)
    ELSE BuiltinCall("calculator", expression,
                     format_tool_output("calculator", None, Some(eval(expression).error)),
                     TRUE, FALSE)

\* CalculatorTool.execute(expression)
calculator_execute(expression) ==
    IF \E i \in 1..Len(expression) : expression[i] \notin allowed_chars
    THEN BuiltinCall("calculator", expression,
                     format_tool_output("calculator", None,
                                        Some("Invalid characters in expression")),
                     FALSE, FALSE)
    ELSE IF eval(expression).ok
    THEN BuiltinCall("calculator", expression,
                     format_tool_output("calculator",
                         Some([expression |-> Text(expression),
                               result |-> eval(expression).value]), None),
                     TRUE, FALSE)
    ELSE BuiltinCall("calculator", expression,
                     format_tool_output("calculator", None, Some(eval(expression).error)),
                     TRUE, FALSE)

\* ---- FileReadTool.  Paths are strs, kept as sequences of characters.

\* s.startswith(prefix)
startswith(s, prefix) ==
    Len(prefix) <= Len(s) /\ SubSeq(s, 1, Len(prefix)) = prefix

RECURSIVE split_from(_, _, _, _)
\* the loop of path.split("/") at character i, comp being the part read
\* since the last "/"
split_from(path, i, comp, comps) ==
    IF i > Len(path) THEN Append(comps, comp)
    ELSE IF path[i] = "/" THEN split_from(path, i + 1, << >>, Append(comps, comp))
    ELSE split_from(path, i + 1, Append(comp, path[i]), comps)

\* path.split("/")
split(path) == split_from(path, 1, << >>, << >>)

RECURSIVE join_slash(_)
\* "/".join(comps)
join_slash(comps) ==
    IF comps = << >> THEN << >>
    ELSE IF Len(comps) = 1 THEN comps[1]
    ELSE comps[1] \o <<"/">> \o join_slash(Tail(comps))

DotDot == <<".", ".">>

\* os.path.join(a, b)
os_path_join(a, b) ==
    IF b # << >> /\ b[1] = "/" THEN b
    ELSE IF a = << >> \/ a[Len(a)] = "/" THEN a \o b
    ELSE a \o <<"/">> \o b

\* the number of slashes os.path.normpath keeps at the front
initial_slashes(path) ==
    IF ~startswith(path, <<"/">>) THEN 0
    ELSE IF startswith(path, <<"/", "/">>) /\ ~startswith(path, <<"/", "/", "/">>) THEN 2
    ELSE 1

RECURSIVE normpath_loop(_, _, _, _)
\* the loop of os.path.normpath over comps from index i
normpath_loop(comps, i, initial, new_comps) ==
    IF i > Len(comps) THEN new_comps
    ELSE IF comps[i] = << >> \/ comps[i] = <<".">>
    THEN normpath_loop(comps, i + 1, initial, new_comps)
    ELSE IF \/ comps[i] # DotDot
            \/ (initial = 0 /\ new_comps = << >>)
            \/ (new_comps # << >> /\ new_comps[Len(new_comps)] = DotDot)
    THEN normpath_loop(comps, i + 1, initial, Append(new_comps, comps[i]))
    ELSE IF new_comps # << >>
    THEN normpath_loop(comps, i + 1, initial, SubSeq(new_comps, 1, Len(new_comps) - 1))
    ELSE normpath_loop(comps, i + 1, initial, new_comps)

\* os.path.normpath(path)
normpath(path) ==
    IF path = << >> THEN <<".">>
    ELSE LET initial == initial_slashes(path)
             body == join_slash(normpath_loop(split(path), 1, initial, << >>))
             whole == [i \in 1..initial |-> "/"] \o body
         IN  IF whole = << >> THEN <<".">> ELSE whole

\* the working directory of the process
getcwd == <<"/", "w">>

\* os.path.abspath(path)
abspath(path) ==
    IF startswith(path, <<"/">>) THEN normpath(path)
    ELSE normpath(os_path_join(getcwd, path))

\* the files and directories there are: a node is the sequence of names
\* from the root to it.  /w/d is the tool's base directory; /w/dx is a
\* directory beside it.
Directories == {<< >>, <<"w">>, <<"w", "d">>, <<"w", "dx">>}
Files == {<<"w", "d", "f">>, <<"w", "dx", "f">>, <<"w", "f">>}
\* what a file holds
Content(node) ==
    IF node = <<"w", "d", "f">> THEN "inside"
    ELSE IF node = <<"w", "dx", "f">> THEN "beside"
    ELSE "above"

OSError(errno, strerror, path) ==
    [ok |-> FALSE, content |-> "",
     error |-> "[Errno " \o errno \o "] " \o strerror \o ": '" \o Text(path) \o "'"]

RECURSIVE open_walk(_, _, _, _)
\* the walk of open(path) through the file system: node is where the walk
\* stands before the component at index i
open_walk(path, comps, i, node) ==
    IF i > Len(comps)
    THEN IF node \in Directories THEN OSError("21", "Is a directory", path)
         ELSE [ok |-> TRUE, content |-> Content(node), error |-> ""]
    ELSE IF node \notin Directories THEN OSError("20", "Not a directory", path)
    ELSE IF comps[i] = << >> \/ comps[i] = <<".">>
    THEN open_walk(path, comps, i + 1, node)
    ELSE IF comps[i] = DotDot
    THEN open_walk(path, comps, i + 1,
                   IF node = << >> THEN node ELSE SubSeq(node, 1, Len(node) - 1))
    ELSE IF Append(node, Text(comps[i])) \in Directories \cup Files
    THEN open_walk(path, comps, i + 1, Append(node, Text(comps[i])))
    ELSE OSError("2", "No such file or directory", path)

\* open(path, "r").read(): the content, or the OSError raised
open(path) ==
    IF path = << >> THEN OSError("2", "No such file or directory", path)
    ELSE IF startswith(path, <<"/">>) THEN open_walk(path, split(path), 1, << >>)
    ELSE open_walk(path, split(path), 1, <<"w">>)

\* FileReadTool(base_path="./d")
base_path == <<".", "/", "d">>

\* FileReadTool.execute(file_path)
file_read_execute(file_path) ==
    LET full_path == os_path_join(base_path, file_path)
    IN  IF ~startswith(abspath(full_path), abspath(base_path))
        THEN BuiltinCall("file_read", file_path,
                         format_tool_output("file_read", None, Some("Invalid file path")),
                         FALSE, FALSE)
        ELSE IF open(full_path).ok
        THEN BuiltinCall("file_read", file_path,
                         format_tool_output("file_read",
                             Some([file_path |-> Text(file_path),
                                   content |-> open(full_path).content,
                                   size |-> Len(open(full_path).content)]), None),
                         FALSE, TRUE)
        ELSE BuiltinCall("file_read", file_path,
                         format_tool_output("file_read", None, Some(open(full_path).error)),
                         FALSE, TRUE)

\* a call ends by returning a value or by raising; ran tells whether a
\* tool's execute was entered
Returned(value, ran) == [ok |-> TRUE, value |-> value, error |-> "", ran |-> ran]
Threw(error, ran) == [ok |-> FALSE, value |-> None, error |-> error, ran |-> ran]

\* a Python value passed as parameters: a dict, or a str holding some text
Dict(keys) == [type |-> "dict", keys |-> keys, text |-> ""]
Str(text) == [type |-> "str", keys |-> {}, text |-> text]

\* json.loads(text), on the texts a tool call of this model carries as its
\* arguments and on the empty text
json_loads(text) ==
    CASE text = "{}" -> Returned(Dict({}), FALSE)
      [] text = "{\"expression\": \"1+1\"}" -> Returned(Dict({"expression"}), FALSE)
      [] text = "{bad" ->
             Threw("Expecting property name enclosed in double quotes: line 1 column 2 (char 1)",
                   FALSE)
      [] text = "" -> Threw("Expecting value: line 1 column 1 (char 0)", FALSE)

\* the keyword arguments the execute of a class requires, and those it
\* accepts; MCPTool.execute(**kwargs) requires none and accepts any
tool_requires(class) ==
    CASE class = "WebSearchTool" -> {"query"}
      [] class = "CalculatorTool" -> {"expression"}
      [] class = "FileReadTool" -> {"file_path"}
      [] class = "APICallTool" -> {"url"}
      [] class = "DatabaseQueryTool" -> {"query"}
      [] class = "MCPTool" -> {}

tool_accepts(class) ==
    CASE class = "WebSearchTool" -> {"query", "max_results"}
      [] class = "CalculatorTool" -> {"expression"}
      [] class = "FileReadTool" -> {"file_path"}
      [] class = "APICallTool" -> {"url", "method", "headers", "body"}
      [] class = "DatabaseQueryTool" -> {"query"}

\* tool.execute(**parameters) of a tool object; what runs is the execute of
\* the object's class, whatever name the object bears.  Python binds the
\* arguments before the body runs: parameters that are no mapping, a key
\* the signature does not accept and a required argument that is missing
\* raise TypeError (a dict of this model holds one key at most, so the key
\* the message names is the one there is).  The body of a built-in tool
\* lies in try/except Exception: it returns its output (behaviour "value")
\* or its except block returns an error output ("failed"), under the name
\* the class writes into its outputs, which is the name its __init__ gives.
\* The body of MCPTool.execute raises NotImplementedError.
tool_execute(tool, parameters, behaviour) ==
    LET class == tool.class
        unexpected == IF class = "MCPTool" THEN {}
                      ELSE parameters.keys \ tool_accepts(class)
        missing == tool_requires(class) \ parameters.keys
    IN  IF parameters.type # "dict"
        THEN Threw("app.mcp.tools." \o class
                       \o ".execute() argument after ** must be a mapping, not str", FALSE)
        ELSE IF unexpected # {}
        THEN Threw(class \o ".execute() got an unexpected keyword argument '"
                       \o (CHOOSE k \in unexpected : TRUE) \o "'", FALSE)
        ELSE IF missing # {}
        THEN Threw(class \o ".execute() missing 1 required positional argument: '"
                       \o (CHOOSE k \in missing : TRUE) \o "'", FALSE)
        ELSE IF class = "MCPTool"
        THEN Threw("Subclasses must implement execute method", TRUE)
        ELSE IF behaviour = "value"
        THEN Returned(format_tool_output(tool.name, Some("42"), None), TRUE)
        ELSE Returned(format_tool_output(tool.name, None,
                                         Some("Invalid characters in expression")), TRUE)

\* an execute_tool that looks the tool up with tools[name]
execute_tool_keyerror(items, name, parameters, behaviour) ==
    IF get_tool(items, name) = None
    THEN Threw(name, FALSE)
    ELSE LET e == tool_execute(get_tool(items, name)[1], parameters, behaviour)
         IN  IF e.ok THEN e
             ELSE Returned(format_tool_output(name, None, Some(e.error)), e.ran)

\* an execute_tool that awaits the tool outside its try block
execute_tool_uncaught(items, name, parameters, behaviour) ==
    IF get_tool(items, name) = None
    THEN Returned(format_tool_output(name, None, Some("Tool '" \o name \o "' not found")),
                  FALSE)
    ELSE tool_execute(get_tool(items, name)[1], parameters, behaviour)

\* MCPToolRegistry.execute_tool(name, parameters)
execute_tool(items, name, parameters, behaviour) ==
    IF get_tool(items, name) = None
    THEN Returned(format_tool_output(name, None, Some("Tool '" \o name \o "' not found")),
                  FALSE)
    ELSE LET e == tool_execute(get_tool(items, name)[1], parameters, behaviour)
         IN  IF e.ok THEN e
             ELSE Returned(format_tool_output(name, None, Some(e.error)), e.ran)

\* a tool call as a provider gives it: each key is absent (None) or present
ToolCall(name, function_name, arguments, input, parameters) ==
    [name |-> name, function_name |-> function_name, arguments |-> arguments,
     input |-> input, parameters |-> parameters]

\* tool_call.get("name") or tool_call.get("function", {}).get("name")
tool_name_of(tool_call) ==
    IF tool_call.name = None \/ tool_call.name = Some("")
    THEN tool_call.function_name
    ELSE tool_call.name

\* the parameters execute_tools takes from a tool call
parameters_of(tool_call) ==
    IF tool_call.arguments # None
    THEN IF tool_call.arguments[1].type = "str"
         THEN json_loads(tool_call.arguments[1].text)
         ELSE Returned(tool_call.arguments[1], FALSE)
    ELSE IF tool_call.input # None
    THEN Returned(tool_call.input[1], FALSE)
    ELSE IF tool_call.parameters # None
    THEN Returned(tool_call.parameters[1], FALSE)
    ELSE Returned(Dict({}), FALSE)

-----------------------------------------------------------------------------
(* Inputs *)

Roles == {"system", "user", "assistant"}
Contents == {"hi", "abcdefgh"}
PromptArgs == {None, Some("S")}
Budgets == 0..MaxBudget
BudgetArgs == {None} \cup {Some(n) : n \in Budgets}
Responses ==
    {[content |-> "hi", model |-> "claude-3-5-sonnet-20241022",
      input_tokens |-> 10, output_tokens |-> 5],
     [content |-> "abcdefgh", model |-> "gpt-3.5-turbo",
      input_tokens |-> 0, output_tokens |-> 0]}
Chunks == {"abcdefgh"}
Fragments == {"ab", "cd"}
ScriptRoles == {"user", "assistant"}
ScriptContents == {"A", "B", "C", "D"}
ProviderArgs == {None, Some("claude"), Some("openai"), Some("gemini")}
AgentIds == {"chat_agent", "support"}
SessionIds == {"A", "B"}
AudioData == {"mp3-bytes"}
SessionContents == {"hi"}
Expression == Dict({"expression"})
ToolCallShapes ==
    {ToolCall(Some("calculator"), None, None, Some(Expression), None),
     ToolCall(Some("calculator"), None, Some(Str("{\"expression\": \"1+1\"}")), None, None),
     ToolCall(Some("calculator"), None, Some(Str("{bad")), None, None),
     ToolCall(None, None, Some(Expression), None, None),
     ToolCall(None, Some("file_read"), None, None, Some(Str("notes.txt"))),
     ToolCall(Some("web_search"), None, None, Some(Expression), None),
     ToolCall(Some("nope"), None, Some(Expression), None, None)}
MoreResponses ==
    {[content |-> "hi", model |-> "gpt-4-turbo-preview",
      input_tokens |-> 1, output_tokens |-> 1],
     [content |-> "hi", model |-> "gpt-3.5-turbo",
      input_tokens |-> 1, output_tokens |-> 1]}
ToolResponses ==
    {[content |-> r.content, model |-> r.model, input_tokens |-> r.input_tokens,
      output_tokens |-> r.output_tokens, tool_uses |-> tool_uses] :
         r \in Responses \cup MoreResponses,
         tool_uses \in {<< >>, <<ToolCall(Some("calculator"), None, None,
                                          Some(Expression), None)>>}}
Batches == UNION {[1..n -> ToolCallShapes] : n \in 0..MaxBatch}
Behaviours == {"value", "failed"}
ExpressionChars == {"1", "2", "+", ",", " ", "a"}
Expressions == UNION {[1..n -> ExpressionChars] : n \in 0..MaxExpr}
PathComponents == {DotDot, <<".">>, <<"w">>, <<"d">>, <<"d", "x">>, <<"f">>}
\* relative and absolute paths of up to MaxPath components
FilePaths ==
    {lead \o join_slash(comps) :
        lead \in {<< >>, <<"/">>},
        comps \in UNION {[1..n -> PathComponents] : n \in 1..MaxPath}}
DocTexts == {"", "ab", "abcd"}
\* the lists retrieve can return: up to MaxDocs documents, ids 1, 2, ...
RetrievedLists ==
    UNION {{[i \in 1..n |-> Retrieved(i, texts[i])] : texts \in [1..n -> DocTexts]} :
           n \in 0..MaxDocs}
\* the tools a caller registers: plain MCPTool objects under a new name
\* and under the name of a built-in tool, and a fresh CalculatorTool()
RegisterNames == {"custom", "calculator"}
ToolsToRegister ==
    {MCPTool(name, "first", <<"x">>) : name \in RegisterNames} \cup {DefaultTools[2]}
RegistryTools ==
    {MCPTool(n, d, <<"x">>) : n \in {"calculator", "custom", "other"},
                              d \in {"first", "second"}}
ToolNames == BuiltinTools \cup RegisterNames \cup {"nope"}
ParameterValues == {Expression, Dict({}), Str("1+1")}

-----------------------------------------------------------------------------
(* The session: construction and its operations *)

FactoryIdle ==
    /\ api_keys = {}
    /\ clients = {}
    /\ default_provider = "claude"
    /\ fpc = "idle"
    /\ preferred = None
    /\ chat_calls = << >>
    /\ chat_failed = {}
    /\ foutcome = "none"

\* ChatAgent.__init__: the provider it was given, no client yet
AgentIdle ==
    /\ llm_provider = None
    /\ llm_client = None
    /\ response = None

\* MCPServer(): a registry holding the built-in tools, no call made
ToolsIdle ==
    /\ tools = DefaultTools
    /\ tool_calls = << >>
    /\ results = << >>
    /\ tpc = "idle"
    /\ ti = 1
    /\ texc = None
    /\ last_call = None

\* routes._agents = {} and no request being served
RestIdle ==
    /\ agents = << >>
    /\ requests = << >>

\* the clock at its first reading
ClockIdle == clock = 0 /\ invocation = None

\* no retrieve_with_context call
RagIdle ==
    /\ retrieved = << >>
    /\ max_context_length = 0
    /\ rag_context = None

\* no chunk_text call
ChunkIdle ==
    /\ ctext = << >>
    /\ chunk_size = 1
    /\ overlap = 0
    /\ cstart = 0
    /\ chunk_list = << >>
    /\ cpc = "idle"

\* manager = ConnectionManager() and no websocket opened
WsIdle ==
    /\ active_connections = << >>
    /\ handlers = << >>
    /\ bcast = << >>
    /\ ws_sent = None
    /\ ws_removed = None

MoreIdle == ClockIdle /\ RagIdle /\ ChunkIdle /\ WsIdle

\* no further agents, no VoiceAgent call, no built-in tool executed
AuxOwnIdle ==
    /\ sessions = << >>
    /\ actor = None
    /\ tts_client = None
    /\ voice_result = None
    /\ builtin_call = None
    /\ registered = << >>
    /\ generate_audio = TRUE
    /\ elevenlabs_api_key = FALSE

AuxIdle == AuxOwnIdle /\ MoreIdle

ExtIdle == AgentIdle /\ ToolsIdle /\ RestIdle /\ AuxIdle

\* ChatAgent(system_prompt=arg, max_history=mh, max_tokens=mt)
Construct(arg, mh, mt) ==
    /\ system_prompt = init_system_prompt(arg)
    /\ max_history = mh
    /\ max_tokens = mt
    /\ conversation_history = init_history(init_system_prompt(arg))
    /\ total_tokens_used = 0
    /\ total_cost = 0
    /\ pc = "idle"
    /\ context = << >>
    /\ full_response = ""
    /\ yielded = << >>
    /\ outcome = "none"
    /\ op = "__init__"
    /\ before = << >>
    /\ turn = << >>
    /\ budget = None
    /\ calls = << >>
    /\ cleared_all = FALSE

Init ==
    /\ \E arg \in PromptArgs, mh \in 1..MaxHistoryBound, mt \in {MaxBudget - 1, MaxBudget} :
           Construct(arg, mh, mt)
    /\ FactoryIdle
    /\ ExtIdle

\* what every operation records of its call
Called(name, m, arg) ==
    /\ op' = name
    /\ before' = conversation_history
    /\ turn' = m
    /\ budget' = arg

\* agent.add_message(role, content)
AddMessage(role, content) ==
    /\ pc = "idle"
    /\ Len(conversation_history) < MaxLen
    /\ conversation_history' =
           add_message(conversation_history, max_history, role, content)
    /\ Called("add_message", <<Message(role, content)>>, None)
    /\ context' = << >>
    /\ outcome' = "returned"
    /\ UNCHANGED <<ext_vars, factory_vars, system_prompt, max_history, max_tokens, total_tokens_used,
                   total_cost, pc, full_response, yielded, calls, cleared_all>>

\* a clear_history that also starts the usage counters again
ClearHistory_reset(keep_system) ==
    /\ pc = "idle"
    /\ conversation_history' = clear_history(conversation_history, keep_system)
    /\ Called(IF keep_system THEN "clear_history" ELSE "clear_history_all",
              << >>, None)
    /\ cleared_all' = (cleared_all \/ ~keep_system)
    /\ context' = << >>
    /\ outcome' = "returned"
    /\ total_tokens_used' = 0
    /\ total_cost' = 0
    /\ UNCHANGED <<ext_vars, factory_vars, system_prompt, max_history, max_tokens,
                   pc, full_response, yielded, calls>>

\* agent.clear_history(keep_system)
ClearHistory(keep_system) ==
    /\ pc = "idle"
    /\ conversation_history' = clear_history(conversation_history, keep_system)
    /\ Called(IF keep_system THEN "clear_history" ELSE "clear_history_all",
              << >>, None)
    /\ cleared_all' = (cleared_all \/ ~keep_system)
    /\ context' = << >>
    /\ outcome' = "returned"
    /\ UNCHANGED <<ext_vars, factory_vars, system_prompt, max_history, max_tokens, total_tokens_used,
                   total_cost, pc, full_response, yielded, calls>>

\* agent.get_conversation_context(max_tokens=arg)
GetContext(arg) ==
    /\ pc = "idle"
    /\ context' = get_conversation_context(conversation_history, max_tokens, arg)
    /\ Called("get_conversation_context", << >>, arg)
    /\ outcome' = "returned"
    /\ UNCHANGED <<ext_vars, factory_vars, system_prompt, max_history, max_tokens, conversation_history,
                   total_tokens_used, total_cost, pc, full_response, yielded, calls,
                   cleared_all>>

\* process(user_input, max_tokens=arg) up to its await of client.chat:
\* the user turn is added and the context is built
ProcessBegin(user_input, arg) ==
    /\ pc = "idle"
    /\ Len(conversation_history) + 2 <= MaxLen
    /\ LET h == add_message(conversation_history, max_history, "user", user_input)
       IN  /\ conversation_history' = h
           /\ context' = get_conversation_context(h, max_tokens, arg)
    /\ Called("process", <<Message("user", user_input)>>, arg)
    /\ pc' = "chat"
    /\ outcome' = "none"
    /\ UNCHANGED <<ext_vars, factory_vars, system_prompt, max_history, max_tokens, total_tokens_used,
                   total_cost, full_response, yielded, calls, cleared_all>>

\* process: client.chat returned response r
ProcessReturn(r) ==
    /\ pc = "chat"
    /\ total_tokens_used + r.input_tokens + r.output_tokens <= MaxTokensUsed
    /\ conversation_history' =
           add_message(conversation_history, max_history, "assistant", r.content)
    /\ total_tokens_used' = total_tokens_used + r.input_tokens + r.output_tokens
    /\ total_cost' = total_cost + response_cost(r)
    /\ Called("process_return", <<Message("assistant", r.content)>>, None)
    /\ pc' = "idle"
    /\ context' = << >>
    /\ outcome' = "returned"
    /\ UNCHANGED <<ext_vars, factory_vars, system_prompt, max_history, max_tokens, full_response, yielded, calls,
                   cleared_all>>

\* a process whose handler records the apology and returns instead of raising
ProcessRaise_swallow ==
    /\ pc = "chat"
    /\ conversation_history' =
           add_message(conversation_history, max_history, "assistant", error_msg)
    /\ Called("process_raise", <<Message("assistant", error_msg)>>, None)
    /\ pc' = "idle"
    /\ context' = << >>
    /\ outcome' = "returned"
    /\ UNCHANGED <<ext_vars, factory_vars, system_prompt, max_history, max_tokens, total_tokens_used,
                   total_cost, full_response, yielded, calls, cleared_all>>

\* a process whose handler takes the user turn back before the apology
ProcessRaise_rollback ==
    /\ pc = "chat"
    /\ conversation_history' =
           add_message(SubSeq(conversation_history, 1, Len(conversation_history) - 1),
                       max_history, "assistant", error_msg)
    /\ Called("process_raise", <<Message("assistant", error_msg)>>, None)
    /\ pc' = "idle"
    /\ context' = << >>
    /\ outcome' = "raised"
    /\ UNCHANGED <<ext_vars, factory_vars, system_prompt, max_history, max_tokens, total_tokens_used,
                   total_cost, full_response, yielded, calls, cleared_all>>

\* process: an exception inside the try block (no client, or chat raised)
ProcessRaise ==
    /\ pc = "chat"
    /\ conversation_history' =
           add_message(conversation_history, max_history, "assistant", error_msg)
    /\ Called("process_raise", <<Message("assistant", error_msg)>>, None)
    /\ pc' = "idle"
    /\ context' = << >>
    /\ outcome' = "raised"
    /\ UNCHANGED <<ext_vars, factory_vars, system_prompt, max_history, max_tokens, total_tokens_used,
                   total_cost, full_response, yielded, calls, cleared_all>>

\* process: the task is cancelled at its await of client.chat; the
\* cancellation is no Exception, so the except block does not run
ProcessAbandon ==
    /\ pc = "chat"
    /\ Called("process_abandon", << >>, None)
    /\ pc' = "idle"
    /\ context' = << >>
    /\ outcome' = "abandoned"
    /\ UNCHANGED <<ext_vars, factory_vars, system_prompt, max_history, max_tokens,
                   conversation_history, total_tokens_used, total_cost,
                   full_response, yielded, calls, cleared_all>>

\* stream_response(user_input, max_tokens=arg) up to its first chunk
StreamBegin(user_input, arg) ==
    /\ pc = "idle"
    /\ Len(conversation_history) + 2 <= MaxLen
    /\ LET h == add_message(conversation_history, max_history, "user", user_input)
       IN  /\ conversation_history' = h
           /\ context' = get_conversation_context(h, max_tokens, arg)
    /\ Called("stream_response", <<Message("user", user_input)>>, arg)
    /\ pc' = "stream"
    /\ full_response' = ""
    /\ yielded' = << >>
    /\ outcome' = "none"
    /\ UNCHANGED <<ext_vars, factory_vars, system_prompt, max_history, max_tokens, total_tokens_used,
                   total_cost, calls, cleared_all>>

\* a stream_response that puts each chunk in front of its accumulator
StreamChunk_prepend(chunk) ==
    /\ pc = "stream"
    /\ Len(full_response) + Len(chunk) <= MaxStreamLen
    /\ full_response' = chunk \o full_response
    /\ yielded' = Append(yielded, chunk)
    /\ UNCHANGED <<ext_vars, factory_vars, system_prompt, max_history, max_tokens, conversation_history,
                   total_tokens_used, total_cost, pc, context, outcome, op,
                   before, turn, budget, calls, cleared_all>>

\* stream_response: one chunk arrives and is yielded
StreamChunk(chunk) ==
    /\ pc = "stream"
    /\ Len(full_response) + Len(chunk) <= MaxStreamLen
    /\ full_response' = full_response \o chunk
    /\ yielded' = Append(yielded, chunk)
    /\ UNCHANGED <<ext_vars, factory_vars, system_prompt, max_history, max_tokens, conversation_history,
                   total_tokens_used, total_cost, pc, context, outcome, op,
                   before, turn, budget, calls, cleared_all>>

\* stream_response: the stream ends and the whole text is added
StreamEnd ==
    /\ pc = "stream"
    /\ conversation_history' =
           add_message(conversation_history, max_history, "assistant", full_response)
    /\ Called("stream_end", <<Message("assistant", full_response)>>, None)
    /\ pc' = "idle"
    /\ context' = << >>
    /\ full_response' = ""
    /\ yielded' = << >>
    /\ outcome' = "returned"
    /\ UNCHANGED <<ext_vars, factory_vars, system_prompt, max_history, max_tokens, total_tokens_used,
                   total_cost, calls, cleared_all>>

\* stream_response: an exception inside the try block is logged and raised
StreamRaise ==
    /\ pc = "stream"
    /\ Called("stream_raise", << >>, None)
    /\ pc' = "idle"
    /\ context' = << >>
    /\ full_response' = ""
    /\ yielded' = << >>
    /\ outcome' = "raised"
    /\ UNCHANGED <<ext_vars, factory_vars, system_prompt, max_history, max_tokens, conversation_history,
                   total_tokens_used, total_cost, calls, cleared_all>>

Next ==
    \/ \E role \in Roles, content \in Contents : AddMessage(role, content)
    \/ \E keep_system \in BOOLEAN : ClearHistory(keep_system)
    \/ \E arg \in BudgetArgs : GetContext(arg)
    \/ \E user_input \in Contents, arg \in BudgetArgs : ProcessBegin(user_input, arg)
    \/ \E r \in Responses : ProcessReturn(r)
    \/ ProcessRaise
    \/ ProcessAbandon
    \/ \E user_input \in Contents, arg \in BudgetArgs : StreamBegin(user_input, arg)
    \/ \E chunk \in Chunks : StreamChunk(chunk)
    \/ StreamEnd
    \/ StreamRaise

Spec == Init /\ [][Next]_vars

\* streamed turns alone, with chunks that differ
StreamNext ==
    \/ \E user_input \in Contents, arg \in BudgetArgs : StreamBegin(user_input, arg)
    \/ \E chunk \in Fragments : StreamChunk(chunk)
    \/ StreamEnd
    \/ StreamRaise

SpecStream == Init /\ [][StreamNext]_vars

-----------------------------------------------------------------------------
(* A scripted run: add_message calls on a fresh session, recorded in order *)

ScriptInit ==
    /\ Construct(Some("S"), 3, MaxBudget)
    /\ FactoryIdle
    /\ ExtIdle

ScriptAdd(role, content) ==
    /\ Len(calls) < MaxCalls
    /\ conversation_history' =
           add_message(conversation_history, max_history, role, content)
    /\ Called("add_message", <<Message(role, content)>>, None)
    /\ calls' = Append(calls, <<role, content>>)
    /\ outcome' = "returned"
    /\ UNCHANGED <<ext_vars, factory_vars, system_prompt, max_history, max_tokens, total_tokens_used,
                   total_cost, pc, context, full_response, yielded, cleared_all>>

ScriptNext ==
    \E role \in ScriptRoles, content \in ScriptContents : ScriptAdd(role, content)

SpecScript == ScriptInit /\ [][ScriptNext]_vars

-----------------------------------------------------------------------------
(* LLMFactory.chat_with_fallback, one call at a time *)

FactoryInit ==
    /\ Construct(None, MaxHistoryBound, MaxBudget)
    /\ ExtIdle
    /\ api_keys \in SUBSET Providers
    /\ clients = {}
    /\ default_provider = "claude"
    /\ fpc = "idle"
    /\ preferred = None
    /\ chat_calls = << >>
    /\ chat_failed = {}
    /\ foutcome = "none"

\* LLMFactory.set_default_provider(provider): an invalid name raises
SetDefaultProvider(provider) ==
    /\ fpc = "idle"
    /\ default_provider' = IF provider \in Providers THEN provider ELSE default_provider
    /\ UNCHANGED <<ext_vars, session_vars, api_keys, clients, fpc, preferred, chat_calls, chat_failed, foutcome>>

\* the except branch of chat_with_fallback: get_fallback_client(), then its chat
EnterFallback(cache) ==
    LET f == get_fallback_client(api_keys, cache, default_provider)
    IN  /\ clients' = f.clients
        /\ IF f.ok
           THEN /\ fpc' = "fallback"
                /\ chat_calls' = Append(chat_calls, f.provider)
                /\ foutcome' = "none"
           ELSE /\ fpc' = "done"
                /\ chat_calls' = chat_calls
                /\ foutcome' = f.error

\* chat_with_fallback(messages, provider) up to its first await
ChatBegin(provider) ==
    /\ fpc = "idle"
    /\ preferred' = provider
    /\ chat_failed' = {}
    /\ LET c == get_client(provider, api_keys, clients, default_provider)
       IN  IF c.ok
           THEN /\ clients' = c.clients
                /\ fpc' = "primary"
                /\ chat_calls' = <<c.provider>>
                /\ foutcome' = "none"
           ELSE EnterFallback(c.clients)
    /\ UNCHANGED <<ext_vars, session_vars, api_keys, default_provider>>

\* the primary client's chat returns
PrimaryReturn ==
    /\ fpc = "primary"
    /\ fpc' = "done"
    /\ foutcome' = "returned"
    /\ UNCHANGED <<ext_vars, session_vars, api_keys, clients, default_provider, preferred, chat_calls, chat_failed>>

\* the primary client's chat raises
PrimaryRaise ==
    /\ fpc = "primary"
    /\ chat_failed' = {chat_calls[1]}
    /\ EnterFallback(clients)
    /\ UNCHANGED <<ext_vars, session_vars, api_keys, default_provider, preferred>>

\* the fallback client's chat returns
FallbackReturn ==
    /\ fpc = "fallback"
    /\ fpc' = "done"
    /\ foutcome' = "returned"
    /\ UNCHANGED <<ext_vars, session_vars, api_keys, clients, default_provider, preferred, chat_calls, chat_failed>>

\* a chat_with_fallback that would try once more after the fallback's chat raised
FallbackRaise_retry ==
    /\ fpc = "fallback"
    /\ chat_failed' = chat_failed \cup {chat_calls[Len(chat_calls)]}
    /\ IF Len(chat_calls) < 3
       THEN EnterFallback(clients)
       ELSE /\ fpc' = "done"
            /\ foutcome' = "chat raised"
            /\ UNCHANGED <<clients, chat_calls>>
    /\ UNCHANGED <<ext_vars, session_vars, api_keys, default_provider, preferred>>

\* the fallback client's chat raises: the exception leaves chat_with_fallback
FallbackRaise ==
    /\ fpc = "fallback"
    /\ fpc' = "done"
    /\ chat_failed' = chat_failed \cup {chat_calls[Len(chat_calls)]}
    /\ foutcome' = "chat raised"
    /\ UNCHANGED <<ext_vars, session_vars, api_keys, clients, default_provider, preferred, chat_calls>>

\* the caller has the result; the next call may start
ChatDone ==
    /\ fpc = "done"
    /\ fpc' = "idle"
    /\ preferred' = None
    /\ chat_calls' = << >>
    /\ chat_failed' = {}
    /\ foutcome' = "none"
    /\ UNCHANGED <<ext_vars, session_vars, api_keys, clients, default_provider>>

FactoryNext ==
    \/ \E provider \in Providers \cup {"gemini"} : SetDefaultProvider(provider)
    \/ \E provider \in ProviderArgs : ChatBegin(provider)
    \/ PrimaryReturn
    \/ PrimaryRaise
    \/ FallbackReturn
    \/ FallbackRaise
    \/ ChatDone

SpecFactory == FactoryInit /\ [][FactoryNext]_vars

-----------------------------------------------------------------------------
(* ChatAgent.process with the client it takes from LLMFactory *)

AgentInit ==
    /\ Construct(None, MaxHistoryBound, MaxBudget)
    /\ ToolsIdle
    /\ RestIdle
    /\ AuxIdle
    /\ api_keys \in SUBSET Providers
    /\ clients = {}
    /\ default_provider = "claude"
    /\ fpc = "idle"
    /\ preferred = None
    /\ chat_calls = << >>
    /\ chat_failed = {}
    /\ foutcome = "none"
    /\ llm_provider \in ProviderArgs
    /\ llm_client = None
    /\ response = None

\* ChatAgent._get_llm_client()
get_llm_client ==
    IF llm_client = None
    THEN get_client(llm_provider, api_keys, clients, default_provider)
    ELSE Client(llm_client[1], clients)

\* process(user_input, max_tokens=arg) up to its await of client.chat, or,
\* when no client can be made, through its except block
AgentProcessBegin(user_input, arg) ==
    /\ pc = "idle"
    /\ Len(conversation_history) <= MaxLen
    /\ LET h == add_message(conversation_history, max_history, "user", user_input)
           c == get_llm_client
       IN  /\ context' = get_conversation_context(h, max_tokens, arg)
           /\ clients' = c.clients
           /\ budget' = arg
           /\ IF c.ok
              THEN /\ conversation_history' = h
                   /\ llm_client' = Some(c.provider)
                   /\ chat_calls' = <<c.provider>>
                   /\ op' = "process"
                   /\ before' = conversation_history
                   /\ turn' = <<Message("user", user_input)>>
                   /\ pc' = "chat"
                   /\ outcome' = "none"
              ELSE /\ conversation_history' =
                          add_message(h, max_history, "assistant", error_msg)
                   /\ llm_client' = llm_client
                   /\ chat_calls' = << >>
                   /\ op' = "process_raise"
                   /\ before' = h
                   /\ turn' = <<Message("assistant", error_msg)>>
                   /\ pc' = "idle"
                   /\ outcome' = "raised"
    /\ chat_failed' = {}
    /\ response' = None
    /\ UNCHANGED <<aux_vars, tool_vars, rest_vars, system_prompt, max_history, max_tokens,
                   total_tokens_used, total_cost, full_response, yielded, calls, cleared_all,
                   api_keys, default_provider, fpc, preferred, foutcome, llm_provider>>

\* a process that calls the provider again for as long as responses hold
\* tool calls
AgentProcessReturn_loop(r) ==
    /\ pc = "chat"
    /\ total_tokens_used + r.input_tokens + r.output_tokens <= MaxTokensUsed
    /\ total_tokens_used' = total_tokens_used + r.input_tokens + r.output_tokens
    /\ total_cost' = total_cost + response_cost(r)
    /\ response' = Some(r)
    /\ IF r.tool_uses # << >> /\ Len(chat_calls) < 3
       THEN /\ chat_calls' = Append(chat_calls, chat_calls[1])
            /\ UNCHANGED <<conversation_history, op, before, turn, budget, pc,
                           context, outcome>>
       ELSE /\ conversation_history' =
                   add_message(conversation_history, max_history, "assistant", r.content)
            /\ Called("process_return", <<Message("assistant", r.content)>>, None)
            /\ pc' = "idle"
            /\ context' = << >>
            /\ outcome' = "returned"
            /\ chat_calls' = chat_calls
    /\ UNCHANGED <<aux_vars, tool_vars, rest_vars, system_prompt, max_history,
                   max_tokens, full_response, yielded, calls, cleared_all, llm_provider,
                   llm_client, api_keys, clients, default_provider, fpc, preferred,
                   chat_failed, foutcome>>

\* process: client.chat returned response r, which process returns
AgentProcessReturn(r) ==
    /\ pc = "chat"
    /\ total_tokens_used + r.input_tokens + r.output_tokens <= MaxTokensUsed
    /\ conversation_history' =
           add_message(conversation_history, max_history, "assistant", r.content)
    /\ total_tokens_used' = total_tokens_used + r.input_tokens + r.output_tokens
    /\ total_cost' = total_cost + response_cost(r)
    /\ Called("process_return", <<Message("assistant", r.content)>>, None)
    /\ response' = Some(r)
    /\ pc' = "idle"
    /\ context' = << >>
    /\ outcome' = "returned"
    /\ UNCHANGED <<aux_vars, tool_vars, rest_vars, factory_vars, system_prompt, max_history,
                   max_tokens, full_response, yielded, calls, cleared_all, llm_provider,
                   llm_client>>

\* process: client.chat raised; the except block adds the apology and raises
AgentProcessRaise ==
    /\ pc = "chat"
    /\ chat_failed' = {chat_calls[1]}
    /\ conversation_history' =
           add_message(conversation_history, max_history, "assistant", error_msg)
    /\ Called("process_raise", <<Message("assistant", error_msg)>>, None)
    /\ pc' = "idle"
    /\ context' = << >>
    /\ outcome' = "raised"
    /\ UNCHANGED <<aux_vars, tool_vars, rest_vars, agent_vars, system_prompt, max_history,
                   max_tokens, total_tokens_used, total_cost, full_response, yielded, calls,
                   cleared_all, api_keys, clients, default_provider, fpc, preferred,
                   chat_calls, foutcome>>

AgentNext ==
    \/ \E user_input \in Contents, arg \in BudgetArgs : AgentProcessBegin(user_input, arg)
    \/ \E r \in ToolResponses : AgentProcessReturn(r)
    \/ AgentProcessRaise

SpecAgent == AgentInit /\ [][AgentNext]_vars

\* every client.chat that is awaited returns or raises
ProviderAnswers ==
    \/ \E r \in ToolResponses : AgentProcessReturn(r)
    \/ AgentProcessRaise

SpecAgentFair == SpecAgent /\ WF_vars(ProviderAnswers)

-----------------------------------------------------------------------------
(* The REST chat endpoint: requests served concurrently on the event loop *)

\* BaseAgent's default max_history, which get_agent's ChatAgent(agent_id) has
DefaultMaxHistory == 50

NewRequest == [pc |-> "new", agent_id |-> ""]

RestInit ==
    /\ Construct(None, MaxHistoryBound, MaxBudget)
    /\ FactoryIdle
    /\ AgentIdle
    /\ ToolsIdle
    /\ AuxIdle
    /\ agents = << >>
    /\ requests = [q \in 1..MaxRequests |-> NewRequest]

\* routes.get_agent(agent_id): the history of the agent it returns
get_agent(agent_id) ==
    IF agent_id \in DOMAIN agents
    THEN agents[agent_id]
    ELSE init_history(init_system_prompt(None))

\* the agent of agent_id has history h
SetHistory(agent_id, h) ==
    agents' = [a \in DOMAIN agents \cup {agent_id} |->
                  IF a = agent_id THEN h ELSE agents[a]]

\* POST /chat: chat(request) up to the await of client.chat inside process
ChatRequestBegin(q, agent_id, message) ==
    /\ requests[q].pc = "new"
    /\ SetHistory(agent_id,
                  add_message(get_agent(agent_id), DefaultMaxHistory, "user", message))
    /\ requests' = [requests EXCEPT ![q] = [pc |-> "chat", agent_id |-> agent_id]]
    /\ UNCHANGED <<aux_vars, session_vars, factory_vars, agent_vars, tool_vars>>

\* client.chat returned r: process adds the assistant turn, chat responds
ChatRequestReturn(q, r) ==
    /\ requests[q].pc = "chat"
    /\ SetHistory(requests[q].agent_id,
                  add_message(agents[requests[q].agent_id], DefaultMaxHistory,
                              "assistant", r.content))
    /\ requests' = [requests EXCEPT ![q].pc = "done"]
    /\ UNCHANGED <<aux_vars, session_vars, factory_vars, agent_vars, tool_vars>>

\* client.chat raised: process adds the apology, chat responds with status 500
ChatRequestRaise(q) ==
    /\ requests[q].pc = "chat"
    /\ SetHistory(requests[q].agent_id,
                  add_message(agents[requests[q].agent_id], DefaultMaxHistory,
                              "assistant", error_msg))
    /\ requests' = [requests EXCEPT ![q].pc = "failed"]
    /\ UNCHANGED <<aux_vars, session_vars, factory_vars, agent_vars, tool_vars>>

RestNext ==
    \/ \E q \in 1..MaxRequests, agent_id \in AgentIds, message \in Contents :
           ChatRequestBegin(q, agent_id, message)
    \/ \E q \in 1..MaxRequests, r \in Responses : ChatRequestReturn(q, r)
    \/ \E q \in 1..MaxRequests : ChatRequestRaise(q)

SpecRest == RestInit /\ [][RestNext]_vars

-----------------------------------------------------------------------------
(* Several agents side by side, their calls interleaved *)

\* the fields BaseAgent.__init__ gives an agent
NewSession(arg, mh, mt) ==
    [conversation_history |-> init_history(init_system_prompt(arg)),
     max_history |-> mh,
     max_tokens |-> mt,
     total_tokens_used |-> 0,
     total_cost |-> 0,
     pc |-> "idle"]

\* agents whose conversation_history is one list shared by the class
put_shared(ss, a, s) ==
    [b \in DOMAIN ss |->
        IF b = a THEN s
        ELSE [ss[b] EXCEPT !.conversation_history = s.conversation_history]]

\* agent a's fields become s: each agent has its own attributes
put(ss, a, s) == [ss EXCEPT ![a] = s]

SessionsInit ==
    /\ Construct(None, MaxHistoryBound, MaxBudget)
    /\ FactoryIdle
    /\ AgentIdle
    /\ ToolsIdle
    /\ RestIdle
    /\ sessions = [a \in SessionIds |-> NewSession(Some("S"), MaxHistoryBound, MaxBudget)]
    /\ actor = None
    /\ tts_client = None
    /\ voice_result = None
    /\ builtin_call = None
    /\ registered = << >>
    /\ generate_audio = TRUE
    /\ elevenlabs_api_key = FALSE
    /\ MoreIdle

\* what every operation on agent a leaves alone
SessionFrame(a) ==
    /\ actor' = Some(a)
    /\ UNCHANGED <<session_vars, factory_vars, agent_vars, tool_vars, rest_vars,
                   tts_client, voice_result, builtin_call, registered,
                   generate_audio,
                   elevenlabs_api_key, more_vars>>

\* agents[a].add_message(role, content)
SessionAdd(a, role, content) ==
    LET s == sessions[a]
    IN  /\ s.pc = "idle"
        /\ Len(s.conversation_history) < MaxLen
        /\ sessions' = put(sessions, a,
               [s EXCEPT !.conversation_history =
                   add_message(s.conversation_history, s.max_history, role, content)])
        /\ SessionFrame(a)

\* agents[a].clear_history(keep_system)
SessionClear(a, keep_system) ==
    LET s == sessions[a]
    IN  /\ s.pc = "idle"
        /\ sessions' = put(sessions, a,
               [s EXCEPT !.conversation_history =
                   clear_history(s.conversation_history, keep_system)])
        /\ SessionFrame(a)

\* agents[a].process(user_input) up to its await of client.chat
SessionProcessBegin(a, user_input) ==
    LET s == sessions[a]
    IN  /\ s.pc = "idle"
        /\ Len(s.conversation_history) + 2 <= MaxLen
        /\ sessions' = put(sessions, a,
               [s EXCEPT !.conversation_history =
                             add_message(s.conversation_history, s.max_history,
                                         "user", user_input),
                         !.pc = "chat"])
        /\ SessionFrame(a)

\* agents[a].process: client.chat returned r
SessionProcessReturn(a, r) ==
    LET s == sessions[a]
    IN  /\ s.pc = "chat"
        /\ s.total_tokens_used + r.input_tokens + r.output_tokens <= MaxTokensUsed
        /\ sessions' = put(sessions, a,
               [s EXCEPT !.conversation_history =
                             add_message(s.conversation_history, s.max_history,
                                         "assistant", r.content),
                         !.total_tokens_used =
                             s.total_tokens_used + r.input_tokens + r.output_tokens,
                         !.total_cost = s.total_cost + response_cost(r),
                         !.pc = "idle"])
        /\ SessionFrame(a)

\* agents[a].process: client.chat raised
SessionProcessRaise(a) ==
    LET s == sessions[a]
    IN  /\ s.pc = "chat"
        /\ sessions' = put(sessions, a,
               [s EXCEPT !.conversation_history =
                             add_message(s.conversation_history, s.max_history,
                                         "assistant", error_msg),
                         !.pc = "idle"])
        /\ SessionFrame(a)

SessionsNext ==
    \E a \in SessionIds :
        \/ \E role \in ScriptRoles, content \in SessionContents : SessionAdd(a, role, content)
        \/ \E keep_system \in BOOLEAN : SessionClear(a, keep_system)
        \/ \E user_input \in SessionContents : SessionProcessBegin(a, user_input)
        \/ \E r \in Responses : SessionProcessReturn(a, r)
        \/ SessionProcessRaise(a)

SpecSessions == SessionsInit /\ [][SessionsNext]_vars

-----------------------------------------------------------------------------
(* VoiceAgent.process: ChatAgent.process, then speech synthesis *)

\* the dict VoiceAgent.process returns; has_audio says whether it has the
\* key "audio", whose value is None or the audio record
VoiceResult(text, has_audio, audio) ==
    [response |-> text, has_audio |-> has_audio, audio |-> audio]

Audio(data) == [data |-> data, format |-> "mp3", voice_id |-> None]

\* VoiceAgent(system_prompt="S"): a prompt that is given is used as it is
VoiceInit ==
    /\ Construct(Some("S"), MaxHistoryBound, MaxBudget)
    /\ FactoryIdle
    /\ AgentIdle
    /\ ToolsIdle
    /\ RestIdle
    /\ sessions = << >>
    /\ actor = None
    /\ builtin_call = None
    /\ registered = << >>
    /\ tts_client = None
    /\ voice_result = None
    /\ generate_audio = TRUE
    /\ elevenlabs_api_key \in BOOLEAN
    /\ MoreIdle

\* what the steps of a voice process leave alone
VoiceFrame ==
    UNCHANGED <<factory_vars, agent_vars, tool_vars, rest_vars, sessions, actor,
                builtin_call, registered, elevenlabs_api_key, more_vars,
                system_prompt, max_history,
                max_tokens, full_response, yielded, calls, cleared_all>>

\* process(user_input, generate_audio=g) up to super().process's await of
\* client.chat
VoiceProcessBegin(user_input, g) ==
    /\ pc = "idle"
    /\ Len(conversation_history) <= MaxLen
    /\ LET h == add_message(conversation_history, max_history, "user", user_input)
       IN  /\ conversation_history' = h
           /\ context' = get_conversation_context(h, max_tokens, None)
    /\ Called("process", <<Message("user", user_input)>>, None)
    /\ pc' = "chat"
    /\ outcome' = "none"
    /\ generate_audio' = g
    /\ voice_result' = None
    /\ UNCHANGED <<total_tokens_used, total_cost, tts_client>>
    /\ VoiceFrame

\* super().process returned: the provider answered r.  Nothing suspends
\* between that return and the await of text_to_speech at line 75: with
\* generate_audio, _get_tts_client hands out the client there is or makes
\* one, and the call waits for the speech; ElevenLabsClient(...) raising
\* ValueError for want of an API key is caught at once, the except block
\* sets result["audio"] = None and the call returns
VoiceChatReturn(r) ==
    /\ pc = "chat"
    /\ total_tokens_used + r.input_tokens + r.output_tokens <= MaxTokensUsed
    /\ conversation_history' =
           add_message(conversation_history, max_history, "assistant", r.content)
    /\ total_tokens_used' = total_tokens_used + r.input_tokens + r.output_tokens
    /\ total_cost' = total_cost + response_cost(r)
    /\ Called("process_return", <<Message("assistant", r.content)>>, None)
    /\ context' = << >>
    /\ IF ~generate_audio
       THEN /\ voice_result' = Some(VoiceResult(r.content, FALSE, None))
            /\ pc' = "idle"
            /\ outcome' = "returned"
            /\ UNCHANGED tts_client
       ELSE IF tts_client # None \/ elevenlabs_api_key
       THEN /\ voice_result' = Some(VoiceResult(r.content, FALSE, None))
            /\ tts_client' = Some("ElevenLabsClient")
            /\ pc' = "tts"
            /\ outcome' = "none"
       ELSE /\ voice_result' = Some(VoiceResult(r.content, TRUE, None))
            /\ pc' = "idle"
            /\ outcome' = "returned"
            /\ UNCHANGED tts_client
    /\ UNCHANGED generate_audio
    /\ VoiceFrame

\* super().process raised: the apology is recorded and the exception
\* leaves VoiceAgent.process
VoiceChatRaise ==
    /\ pc = "chat"
    /\ conversation_history' =
           add_message(conversation_history, max_history, "assistant", error_msg)
    /\ Called("process_raise", <<Message("assistant", error_msg)>>, None)
    /\ pc' = "idle"
    /\ context' = << >>
    /\ outcome' = "raised"
    /\ UNCHANGED <<total_tokens_used, total_cost, generate_audio, tts_client, voice_result>>
    /\ VoiceFrame

\* text_to_speech returns data: result["audio"] is set and process returns
TtsReturn(data) ==
    /\ pc = "tts"
    /\ voice_result' = Some(VoiceResult(voice_result[1].response, TRUE, Some(Audio(data))))
    /\ Called("tts_return", << >>, None)
    /\ pc' = "idle"
    /\ outcome' = "returned"
    /\ UNCHANGED <<conversation_history, context, total_tokens_used, total_cost,
                   generate_audio, tts_client>>
    /\ VoiceFrame

\* a synthesis failure handled as ChatAgent.process handles a failure:
\* apology recorded, exception raised
TtsRaise_fatal ==
    /\ pc = "tts"
    /\ conversation_history' =
           add_message(conversation_history, max_history, "assistant", error_msg)
    /\ Called("tts_raise", << >>, None)
    /\ pc' = "idle"
    /\ outcome' = "raised"
    /\ UNCHANGED <<context, total_tokens_used, total_cost, generate_audio, voice_result,
                   tts_client>>
    /\ VoiceFrame

\* text_to_speech raises; the except block sets result["audio"] = None
TtsRaise ==
    /\ pc = "tts"
    /\ voice_result' = Some(VoiceResult(voice_result[1].response, TRUE, None))
    /\ Called("tts_raise", << >>, None)
    /\ pc' = "idle"
    /\ outcome' = "returned"
    /\ UNCHANGED <<conversation_history, context, total_tokens_used, total_cost,
                   generate_audio, tts_client>>
    /\ VoiceFrame

\* agent.text_to_speech(text) up to its await of the client's
\* text_to_speech; without a client and without an API key the ValueError
\* of ElevenLabsClient(...) leaves the call
TextToSpeechBegin ==
    /\ pc = "idle"
    /\ Called("text_to_speech", << >>, None)
    /\ IF tts_client # None \/ elevenlabs_api_key
       THEN /\ tts_client' = Some("ElevenLabsClient")
            /\ pc' = "speech"
            /\ outcome' = "none"
       ELSE /\ outcome' = "raised"
            /\ UNCHANGED <<tts_client, pc>>
    /\ UNCHANGED <<conversation_history, context, total_tokens_used, total_cost,
                   generate_audio, voice_result>>
    /\ VoiceFrame

\* the client's text_to_speech returns the audio (returned) or raises
TextToSpeechEnd(returned) ==
    /\ pc = "speech"
    /\ Called(IF returned THEN "text_to_speech_return" ELSE "text_to_speech_raise",
              << >>, None)
    /\ pc' = "idle"
    /\ outcome' = IF returned THEN "returned" ELSE "raised"
    /\ UNCHANGED <<conversation_history, context, total_tokens_used, total_cost,
                   generate_audio, voice_result, tts_client>>
    /\ VoiceFrame

VoiceNext ==
    \/ \E user_input \in Contents, g \in BOOLEAN : VoiceProcessBegin(user_input, g)
    \/ \E r \in Responses : VoiceChatReturn(r)
    \/ VoiceChatRaise
    \/ \E data \in AudioData : TtsReturn(data)
    \/ TtsRaise
    \/ TextToSpeechBegin
    \/ \E returned \in BOOLEAN : TextToSpeechEnd(returned)

SpecVoice == VoiceInit /\ [][VoiceNext]_vars

-----------------------------------------------------------------------------
(* MCPToolRegistry and MCPServer: register, execute_tool, execute_tools *)

ToolsInit ==
    /\ Construct(None, MaxHistoryBound, MaxBudget)
    /\ FactoryIdle
    /\ AgentIdle
    /\ RestIdle
    /\ ToolsIdle
    /\ AuxIdle

\* what an execute_tool call was given and what it did
Dispatched(name, parameters, behaviour, o) ==
    Some([name |-> name, parameters |-> parameters, behaviour |-> behaviour,
          registry |-> tools, outcome |-> o])

\* tool_registry.register(tool) for a tool of the given name
RegisterTool(tool) ==
    /\ Len(registered) < MaxRegister
    /\ tools' = register(tools, tool)
    /\ registered' = Append(registered, tool)
    /\ last_call' = None
    /\ UNCHANGED <<session_vars, factory_vars, agent_vars, rest_vars, sessions, actor,
                   tts_client, voice_result, builtin_call, generate_audio,
                   elevenlabs_api_key, more_vars, tool_calls, results, tpc, ti, texc>>

\* MCPServer.execute_tool(tool_name, parameters), as the /mcp/execute route calls it
ExecuteTool(name, parameters, behaviour) ==
    /\ tpc = "idle"
    /\ last_call' = Dispatched(name, parameters, behaviour,
                               execute_tool(tools, name, parameters, behaviour))
    /\ UNCHANGED <<aux_vars, session_vars, factory_vars, agent_vars, rest_vars,
                   tools, tool_calls, results, tpc, ti, texc>>

\* MCPServer.execute_tools(tool_calls) up to its loop
ExecuteToolsBegin(batch) ==
    /\ tpc = "idle"
    /\ tool_calls' = batch
    /\ results' = << >>
    /\ ti' = 1
    /\ texc' = None
    /\ last_call' = None
    /\ tpc' = "loop"
    /\ UNCHANGED <<aux_vars, session_vars, factory_vars, agent_vars, rest_vars, tools>>

\* one iteration of the loop of execute_tools
ExecuteToolsStep(behaviour) ==
    /\ tpc = "loop"
    /\ ti <= Len(tool_calls)
    /\ LET tool_call == tool_calls[ti]
           tool_name == tool_name_of(tool_call)
           parameters == parameters_of(tool_call)
       IN  IF tool_name = None \/ tool_name = Some("")
           THEN /\ ti' = ti + 1
                /\ UNCHANGED <<results, tpc, texc, last_call>>
           ELSE IF ~parameters.ok
           THEN /\ texc' = Some(parameters.error)
                /\ tpc' = "done"
                /\ UNCHANGED <<results, ti, last_call>>
           ELSE LET o == execute_tool(tools, tool_name[1], parameters.value, behaviour)
                IN  /\ last_call' = Dispatched(tool_name[1], parameters.value, behaviour, o)
                    /\ IF o.ok
                       THEN /\ results' = Append(results, o.value)
                            /\ ti' = ti + 1
                            /\ UNCHANGED <<tpc, texc>>
                       ELSE /\ texc' = Some(o.error)
                            /\ tpc' = "done"
                            /\ UNCHANGED <<results, ti>>
    /\ UNCHANGED <<aux_vars, session_vars, factory_vars, agent_vars, rest_vars, tools, tool_calls>>

\* the loop is over: execute_tools returns results
ExecuteToolsReturn ==
    /\ tpc = "loop"
    /\ ti > Len(tool_calls)
    /\ tpc' = "done"
    /\ UNCHANGED <<aux_vars, session_vars, factory_vars, agent_vars, rest_vars,
                   tools, tool_calls, results, ti, texc, last_call>>

\* the caller has the results or the exception; the next call may start
ExecuteToolsDone ==
    /\ tpc = "done"
    /\ tpc' = "idle"
    /\ tool_calls' = << >>
    /\ results' = << >>
    /\ ti' = 1
    /\ texc' = None
    /\ last_call' = None
    /\ UNCHANGED <<aux_vars, session_vars, factory_vars, agent_vars, rest_vars, tools>>

\* register calls arrive at any time, between the iterations of a running
\* execute_tools as well; two of them replace a built-in tool and put it back
ToolsNext ==
    \/ \E tool \in ToolsToRegister : Len(registered) < MaxRegister - 1 /\ RegisterTool(tool)
    \/ \E name \in ToolNames, parameters \in ParameterValues, behaviour \in Behaviours :
           ExecuteTool(name, parameters, behaviour)
    \/ \E batch \in Batches : ExecuteToolsBegin(batch)
    \/ \E behaviour \in Behaviours : ExecuteToolsStep(behaviour)
    \/ ExecuteToolsReturn
    \/ ExecuteToolsDone

SpecTools == ToolsInit /\ [][ToolsNext]_vars

\* the registry alone: any sequence of register calls
RegistryNext == \E tool \in RegistryTools : RegisterTool(tool)

SpecRegistry == ToolsInit /\ [][RegistryNext]_vars

-----------------------------------------------------------------------------
(* Turns with their ids: add_message under a clock *)

\* ChatAgent(system_prompt="S"): the system turn is created at the first
\* clock reading
IdsInit ==
    /\ system_prompt = "S"
    /\ max_history = MaxHistoryBound
    /\ max_tokens = MaxBudget
    /\ conversation_history = <<MessageAt("system", "S", 0)>>
    /\ total_tokens_used = 0
    /\ total_cost = 0
    /\ pc = "idle"
    /\ context = << >>
    /\ full_response = ""
    /\ yielded = << >>
    /\ outcome = "none"
    /\ op = "__init__"
    /\ before = << >>
    /\ turn = << >>
    /\ budget = None
    /\ calls = << >>
    /\ cleared_all = FALSE
    /\ FactoryIdle
    /\ ExtIdle

\* time passes: the next datetime.now() reads a later microsecond
ClockTick ==
    /\ clock < MaxClock
    /\ clock' = clock + 1
    /\ UNCHANGED invocation
    /\ UNCHANGED <<session_vars, factory_vars, agent_vars, tool_vars, rest_vars,
                   aux_own_vars, rag_vars, chunk_vars, ws_vars>>

\* agent.add_message(role, content) while datetime.now() reads clock
AddMessageAt(role, content) ==
    /\ pc = "idle"
    /\ Len(conversation_history) < MaxLen
    /\ conversation_history' =
           trim_history(Append(conversation_history, MessageAt(role, content, clock)),
                        max_history)
    /\ Called("add_message", <<MessageAt(role, content, clock)>>, None)
    /\ context' = << >>
    /\ outcome' = "returned"
    /\ UNCHANGED <<ext_vars, factory_vars, system_prompt, max_history, max_tokens,
                   total_tokens_used, total_cost, pc, full_response, yielded, calls,
                   cleared_all>>

IdsNext ==
    \/ ClockTick
    \/ \E role \in Roles, content \in Contents : AddMessageAt(role, content)

SpecIds == IdsInit /\ [][IdsNext]_vars

-----------------------------------------------------------------------------
(* The provider calls of process and stream_response with their arguments *)

\* process(user_input, max_tokens=arg) up to its await of client.chat
InvokeChat(user_input, arg) ==
    /\ pc = "idle"
    /\ Len(conversation_history) + 2 <= MaxLen
    /\ LET h == add_message(conversation_history, max_history, "user", user_input)
           ctx == get_conversation_context(h, max_tokens, arg)
       IN  /\ conversation_history' = h
           /\ context' = ctx
           /\ invocation' = Some(Invocation("process", ctx,
                                  system_prompt_argument(ctx, system_prompt)))
    /\ Called("process", <<Message("user", user_input)>>, arg)
    /\ pc' = "chat"
    /\ outcome' = "none"
    /\ UNCHANGED <<factory_vars, agent_vars, tool_vars, rest_vars, aux_own_vars, clock,
                   rag_vars, chunk_vars, ws_vars, system_prompt, max_history, max_tokens,
                   total_tokens_used, total_cost, full_response, yielded, calls,
                   cleared_all>>

\* stream_response(user_input, max_tokens=arg) up to the first chunk of
\* client.stream_response
InvokeStream(user_input, arg) ==
    /\ pc = "idle"
    /\ Len(conversation_history) + 2 <= MaxLen
    /\ LET h == add_message(conversation_history, max_history, "user", user_input)
           ctx == get_conversation_context(h, max_tokens, arg)
       IN  /\ conversation_history' = h
           /\ context' = ctx
           /\ invocation' = Some(Invocation("stream_response", ctx,
                                  system_prompt_argument(ctx, system_prompt)))
    /\ Called("stream_response", <<Message("user", user_input)>>, arg)
    /\ pc' = "stream"
    /\ full_response' = ""
    /\ yielded' = << >>
    /\ outcome' = "none"
    /\ UNCHANGED <<factory_vars, agent_vars, tool_vars, rest_vars, aux_own_vars, clock,
                   rag_vars, chunk_vars, ws_vars, system_prompt, max_history, max_tokens,
                   total_tokens_used, total_cost, calls, cleared_all>>

\* the calls end by raising: what the provider answers has no part in
\* the arguments of the next call
InvokeNext ==
    \/ \E role \in Roles : AddMessage(role, "hi")
    \/ \E keep_system \in BOOLEAN : ClearHistory(keep_system)
    \/ \E arg \in BudgetArgs : InvokeChat("abcdefgh", arg)
    \/ ProcessRaise
    \/ \E arg \in BudgetArgs : InvokeStream("abcdefgh", arg)
    \/ StreamRaise

\* ChatAgent(system_prompt=arg, max_history=MaxHistoryBound, max_tokens=MaxBudget)
InvokeInit ==
    /\ \E arg \in PromptArgs : Construct(arg, MaxHistoryBound, MaxBudget)
    /\ FactoryIdle
    /\ ExtIdle

SpecInvoke == InvokeInit /\ [][InvokeNext]_vars

-----------------------------------------------------------------------------
(* RAGRetriever.retrieve_with_context *)

\* a call is made with some max_context_length, and retrieve has found
\* some documents
RagInit ==
    /\ Construct(None, MaxHistoryBound, MaxBudget)
    /\ FactoryIdle
    /\ AgentIdle
    /\ ToolsIdle
    /\ RestIdle
    /\ AuxOwnIdle
    /\ ClockIdle
    /\ ChunkIdle
    /\ WsIdle
    /\ retrieved \in RetrievedLists
    /\ max_context_length \in 0..MaxContextLength
    /\ rag_context = None

\* retrieve_with_context builds the context and returns
RetrieveWithContext ==
    /\ rag_context = None
    /\ rag_context' = Some(retrieve_with_context(retrieved, max_context_length))
    /\ UNCHANGED <<session_vars, factory_vars, agent_vars, tool_vars, rest_vars,
                   aux_own_vars, clock_vars, chunk_vars, ws_vars, retrieved,
                   max_context_length>>

RagNext == RetrieveWithContext

SpecRag == RagInit /\ [][RagNext]_vars

-----------------------------------------------------------------------------
(* The built-in tools CalculatorTool and FileReadTool *)

BuiltinsInit ==
    /\ Construct(None, MaxHistoryBound, MaxBudget)
    /\ FactoryIdle
    /\ ExtIdle

\* what an execute of a built-in tool leaves alone
BuiltinFrame ==
    UNCHANGED <<session_vars, factory_vars, agent_vars, tool_vars, rest_vars,
                sessions, actor, tts_client, voice_result, registered,
                generate_audio, elevenlabs_api_key, more_vars>>

\* await CalculatorTool().execute(expression).  The tools keep nothing
\* from one call to the next, so a run makes one call.
CalculatorExecute(expression) ==
    /\ builtin_call = None
    /\ builtin_call' = Some(calculator_execute(expression))
    /\ BuiltinFrame

\* await FileReadTool(base_path="./d").execute(file_path)
FileReadExecute(file_path) ==
    /\ builtin_call = None
    /\ builtin_call' = Some(file_read_execute(file_path))
    /\ BuiltinFrame

BuiltinsNext ==
    \/ \E expression \in Expressions : CalculatorExecute(expression)
    \/ \E file_path \in FilePaths : FileReadExecute(file_path)

SpecBuiltins == BuiltinsInit /\ [][BuiltinsNext]_vars

\* the outputs of the tools and of the registry's dispatch: a run makes one
\* call, of execute_tool or of the execute of a built-in tool
OutputsNext ==
    \/ \E tool \in ToolsToRegister :
           last_call = None /\ builtin_call = None /\ RegisterTool(tool)
    \/ \E name \in ToolNames, parameters \in ParameterValues, behaviour \in Behaviours :
           last_call = None /\ builtin_call = None /\ ExecuteTool(name, parameters, behaviour)
    \/ \E expression \in Expressions :
           last_call = None /\ registered = << >> /\ CalculatorExecute(expression)
    \/ \E file_path \in FilePaths :
           last_call = None /\ registered = << >> /\ FileReadExecute(file_path)

SpecOutputs == BuiltinsInit /\ [][OutputsNext]_vars

-----------------------------------------------------------------------------
(* api/websocket.py: the ConnectionManager and websocket_endpoint *)

\* the websockets the server is handed and the client_id of their paths
Sockets == {"w1", "w2"}
ClientIds == {"c1", "c2"}

\* what receive_json meets: a dict of type "message", "ping" or another
\* type, or a frame that is no JSON object (a list, a number, text that
\* does not decode)
Received == {"message", "ping", "other", "malformed"}

\* an entry of the dict, and what del leaves in the place of one
Entry(client_id, websocket) == [client_id |-> client_id, websocket |-> websocket]
Hole == Entry("", "")

\* the position of client_id's entry in the dict, 0 when it has none
entry_of(connections, client_id) ==
    IF \E i \in 1..Len(connections) : connections[i].client_id = client_id
    THEN CHOOSE i \in 1..Len(connections) : connections[i].client_id = client_id
    ELSE 0

\* len(self.active_connections)
used(connections) == Cardinality({i \in 1..Len(connections) : connections[i] # Hole})

\* self.active_connections.get(client_id)
connection_of(connections, client_id) ==
    IF entry_of(connections, client_id) = 0 THEN None
    ELSE Some(connections[entry_of(connections, client_id)].websocket)

\* ConnectionManager.connect, after accept: active_connections[client_id] = websocket;
\* a key the dict holds keeps its place, a new key goes to the end
connect(connections, websocket, client_id) ==
    IF entry_of(connections, client_id) = 0
    THEN Append(connections, Entry(client_id, websocket))
    ELSE [connections EXCEPT ![entry_of(connections, client_id)] =
                                 Entry(client_id, websocket)]

\* ConnectionManager.disconnect(client_id)
disconnect(connections, client_id) ==
    IF entry_of(connections, client_id) = 0 THEN connections
    ELSE [connections EXCEPT ![entry_of(connections, client_id)] = Hole]

RECURSIVE disconnect_all(_, _)
\* for client_id in disconnected: self.disconnect(client_id)
disconnect_all(connections, disconnected) ==
    IF disconnected = << >> THEN connections
    ELSE disconnect_all(disconnect(connections, Head(disconnected)), Tail(disconnected))

\* next() of the iterator of self.active_connections.items(): di_used is the
\* len of the dict when the iterator was made, di_pos the entries it has
\* passed, len the items it still expects
dictiter_next(connections, di_used, di_pos, len) ==
    LET rest == {i \in (di_pos + 1)..Len(connections) : connections[i] # Hole}
        i == CHOOSE j \in rest : \A k \in rest : j <= k
    IN  IF di_used # used(connections)
        THEN [kind |-> "error", error |-> "dictionary changed size during iteration",
              entry |-> Hole, di_pos |-> di_pos, len |-> len]
        ELSE IF rest = {}
        THEN [kind |-> "stop", error |-> "", entry |-> Hole, di_pos |-> di_pos, len |-> len]
        ELSE IF len = 0
        THEN [kind |-> "error", error |-> "dictionary keys changed during iteration",
              entry |-> Hole, di_pos |-> di_pos, len |-> len]
        ELSE [kind |-> "item", error |-> "", entry |-> connections[i], di_pos |-> i,
              len |-> len - 1]

\* a websocket_endpoint call: the client_id of its path, where it stands
\* ("new": not called yet, "accept": awaiting websocket.accept, "send":
\* inside send_personal_message, awaiting send_json, "receive": awaiting
\* receive_json, "process": awaiting agent.process, "closed": it has
\* ended), whether the client still holds the connection open, and for
\* "send" the websocket send_json was called on and the type of the message
Handler(client_id, at, open_, target, type) ==
    [client_id |-> client_id, pc |-> at, open |-> open_, target |-> target, type |-> type]

\* a manager.broadcast call: "idle" (none running) or "send" (awaiting
\* send_json on connection, the item of client_id), its iterator, its
\* disconnected list, and how the last call ended
Broadcast(at, di_used, di_pos, len, client_id, connection, disconnected, ended) ==
    [pc |-> at, di_used |-> di_used, di_pos |-> di_pos, len |-> len,
     client_id |-> client_id, connection |-> connection,
     disconnected |-> disconnected, ended |-> ended]

\* a send_personal_message by the handler of websocket by: on is the
\* websocket send_json was called on and returned, None when there was none
Sent(by, on, type) == [by |-> by, on |-> on, type |-> type]

\* a disconnect by the handler of websocket by: removed is the websocket
\* whose registration was deleted, None when the client_id had none
Removed(by, removed, cause) == [by |-> by, removed |-> removed, cause |-> cause]

WsInit ==
    /\ Construct(None, MaxHistoryBound, MaxBudget)
    /\ FactoryIdle
    /\ AgentIdle
    /\ ToolsIdle
    /\ RestIdle
    /\ AuxOwnIdle
    /\ ClockIdle
    /\ RagIdle
    /\ ChunkIdle
    /\ active_connections = << >>
    /\ handlers = [w \in Sockets |-> Handler("", "new", FALSE, None, "")]
    /\ bcast = Broadcast("idle", 0, 0, 0, "", "", << >>, "none")
    /\ ws_sent = None
    /\ ws_removed = None

WsFrame ==
    UNCHANGED <<session_vars, factory_vars, agent_vars, tool_vars, rest_vars,
                aux_own_vars, clock_vars, rag_vars, chunk_vars>>

\* manager.send_personal_message(message, client_id) up to its await,
\* called by the handler of websocket by while the dict is connections:
\* with no entry for the client_id nothing is sent and the handler goes on
\* to receive_json; else send_json is called on the websocket the entry
\* holds, and the handler rests there
send_personal_message(connections, by, type) ==
    LET target == connection_of(connections, handlers[by].client_id)
    IN  IF target = None
        THEN /\ handlers' = [handlers EXCEPT ![by].pc = "receive",
                                             ![by].target = None, ![by].type = ""]
             /\ ws_sent' = Some(Sent(by, None, type))
        ELSE /\ handlers' = [handlers EXCEPT ![by].pc = "send",
                                             ![by].target = target, ![by].type = type]
             /\ UNCHANGED ws_sent

\* a client opens /ws/{client_id}: websocket_endpoint is called
WsOpen(w, client_id) ==
    /\ handlers[w].pc = "new"
    /\ handlers' = [handlers EXCEPT ![w] = Handler(client_id, "accept", TRUE, None, "")]
    /\ UNCHANGED <<active_connections, bcast, ws_sent, ws_removed>>
    /\ WsFrame

\* the client closes its connection, or the connection is lost
WsClientClose(w) ==
    /\ handlers[w].pc \in {"accept", "send", "receive", "process"}
    /\ handlers[w].open
    /\ handlers' = [handlers EXCEPT ![w].open = FALSE]
    /\ UNCHANGED <<active_connections, bcast, ws_sent, ws_removed>>
    /\ WsFrame

\* accept returns: connect registers the websocket, the agent is made, and
\* the welcome is handed to send_personal_message, which finds the entry
\* just written and rests at send_json
WsConnect(w) ==
    /\ handlers[w].pc = "accept"
    /\ handlers[w].open
    /\ active_connections' = connect(active_connections, w, handlers[w].client_id)
    /\ send_personal_message(active_connections', w, "connection")
    /\ UNCHANGED <<bcast, ws_removed>>
    /\ WsFrame

\* accept raises on a connection the client has given up: the exception
\* leaves websocket_endpoint, outside its try block
WsAcceptFail(w) ==
    /\ handlers[w].pc = "accept"
    /\ ~handlers[w].open
    /\ handlers' = [handlers EXCEPT ![w].pc = "closed"]
    /\ UNCHANGED <<active_connections, bcast, ws_sent, ws_removed>>
    /\ WsFrame

\* the send_json of a send_personal_message returns, or raises on a
\* websocket whose connection is gone: the except block then disconnects
\* the client_id, whatever websocket is registered under it by now.  Either
\* way the handler goes on to receive_json.
WsSendDone(w, raises) ==
    /\ handlers[w].pc = "send"
    /\ LET target == handlers[w].target[1]
           client_id == handlers[w].client_id
       IN  IF raises
           THEN /\ ~handlers[target].open
                /\ ws_sent' = Some(Sent(w, None, handlers[w].type))
                /\ ws_removed' = Some(Removed(w, connection_of(active_connections, client_id),
                                              "send"))
                /\ active_connections' = disconnect(active_connections, client_id)
           ELSE /\ ws_sent' = Some(Sent(w, Some(target), handlers[w].type))
                /\ UNCHANGED <<active_connections, ws_removed>>
    /\ handlers' = [handlers EXCEPT ![w].pc = "receive", ![w].target = None, ![w].type = ""]
    /\ UNCHANGED bcast
    /\ WsFrame

\* receive_json returns.  A "message" is handed to agent.process, a "ping"
\* is answered with a "pong", a dict of another type is dropped and the
\* loop reads on; on anything that is no dict data.get raises, and on text
\* that does not decode receive_json itself does: except Exception
\* disconnects the client_id and the handler ends, the server closing the
\* connection
WsReceive(w, data) ==
    /\ handlers[w].pc = "receive"
    /\ handlers[w].open
    /\ CASE data = "message" ->
                /\ handlers' = [handlers EXCEPT ![w].pc = "process"]
                /\ UNCHANGED <<active_connections, ws_sent, ws_removed>>
         [] data = "ping" ->
                /\ send_personal_message(active_connections, w, "pong")
                /\ UNCHANGED <<active_connections, ws_removed>>
         [] data = "other" ->
                UNCHANGED <<handlers, active_connections, ws_sent, ws_removed>>
         [] data = "malformed" ->
                /\ ws_removed' =
                       Some(Removed(w, connection_of(active_connections,
                                                     handlers[w].client_id), "error"))
                /\ active_connections' = disconnect(active_connections, handlers[w].client_id)
                /\ handlers' = [handlers EXCEPT ![w].pc = "closed", ![w].open = FALSE]
                /\ UNCHANGED ws_sent
    /\ UNCHANGED bcast
    /\ WsFrame

\* agent.process has returned (ok) or raised: the response or the error is
\* handed to send_personal_message
WsProcessDone(w, ok) ==
    /\ handlers[w].pc = "process"
    /\ send_personal_message(active_connections, w, IF ok THEN "response" ELSE "error")
    /\ UNCHANGED <<active_connections, bcast, ws_removed>>
    /\ WsFrame

\* receive_json raises WebSocketDisconnect: manager.disconnect(client_id)
WsDisconnect(w) ==
    /\ handlers[w].pc = "receive"
    /\ ~handlers[w].open
    /\ ws_removed' = Some(Removed(w, connection_of(active_connections,
                                                   handlers[w].client_id), "close"))
    /\ active_connections' = disconnect(active_connections, handlers[w].client_id)
    /\ handlers' = [handlers EXCEPT ![w].pc = "closed"]
    /\ UNCHANGED <<bcast, ws_sent>>
    /\ WsFrame

\* the for loop of broadcast takes the next item: the iterator raises
\* RuntimeError, which leaves broadcast with its disconnected list unused,
\* or it is exhausted and the client_ids of the list are disconnected, or
\* send_json is called on the item's connection
broadcast_next(di_used, di_pos, len, disconnected) ==
    LET item == dictiter_next(active_connections, di_used, di_pos, len)
    IN  CASE item.kind = "error" ->
                 /\ bcast' = Broadcast("idle", 0, 0, 0, "", "", << >>, item.error)
                 /\ UNCHANGED <<active_connections, ws_removed>>
          [] item.kind = "stop" ->
                 /\ bcast' = Broadcast("idle", 0, 0, 0, "", "", << >>, "returned")
                 /\ active_connections' = disconnect_all(active_connections, disconnected)
                 /\ ws_removed' =
                        IF disconnected = << >> THEN ws_removed
                        ELSE Some(Removed("broadcast",
                                 connection_of(disconnect_all(active_connections,
                                     SubSeq(disconnected, 1, Len(disconnected) - 1)),
                                     disconnected[Len(disconnected)]),
                                 "broadcast"))
          [] item.kind = "item" ->
                 /\ bcast' = Broadcast("send", di_used, item.di_pos, item.len,
                                       item.entry.client_id, item.entry.websocket,
                                       disconnected, "none")
                 /\ UNCHANGED <<active_connections, ws_removed>>

\* manager.broadcast(message) is called: up to its first send_json, or to
\* its return when no connection is registered
BroadcastBegin ==
    /\ bcast.pc = "idle"
    /\ broadcast_next(used(active_connections), 0, used(active_connections), << >>)
    /\ UNCHANGED <<handlers, ws_sent>>
    /\ WsFrame

\* a send_json of broadcast returns, or raises on a connection that is
\* gone and the client_id is put on the disconnected list; the loop goes on
BroadcastSendDone(raises) ==
    /\ bcast.pc = "send"
    /\ raises => ~handlers[bcast.connection].open
    /\ broadcast_next(bcast.di_used, bcast.di_pos, bcast.len,
                      IF raises THEN Append(bcast.disconnected, bcast.client_id)
                      ELSE bcast.disconnected)
    /\ UNCHANGED <<handlers, ws_sent>>
    /\ WsFrame

WsNext ==
    \/ \E w \in Sockets, client_id \in ClientIds : WsOpen(w, client_id)
    \/ \E w \in Sockets : WsClientClose(w)
    \/ \E w \in Sockets : WsConnect(w)
    \/ \E w \in Sockets : WsAcceptFail(w)
    \/ \E w \in Sockets, raises \in BOOLEAN : WsSendDone(w, raises)
    \/ \E w \in Sockets, data \in Received : WsReceive(w, data)
    \/ \E w \in Sockets, ok \in BOOLEAN : WsProcessDone(w, ok)
    \/ \E w \in Sockets : WsDisconnect(w)
    \/ BroadcastBegin
    \/ \E raises \in BOOLEAN : BroadcastSendDone(raises)

SpecWs == WsInit /\ [][WsNext]_vars

-----------------------------------------------------------------------------
(* helpers.chunk_text, as VectorStore.add_document_chunked calls it *)

Min(a, b) == IF a <= b THEN a ELSE b

\* a slice index as Python clamps it for a sequence of n items
slice_index(i, n) == IF i < 0 THEN (IF i + n < 0 THEN 0 ELSE i + n) ELSE Min(i, n)

\* text[start:end]
slice(text, start, end) ==
    SubSeq(text, slice_index(start, Len(text)) + 1, slice_index(end, Len(text)))

\* the texts given: the first characters of "abcdef..."
Alphabet == <<"a", "b", "c", "d", "e", "f">>
ChunkTexts == {SubSeq(Alphabet, 1, n) : n \in 0..MaxText}

\* chunk_text(text, chunk_size, overlap) is about to be called
ChunkInit ==
    /\ Construct(None, MaxHistoryBound, MaxBudget)
    /\ FactoryIdle
    /\ AgentIdle
    /\ ToolsIdle
    /\ RestIdle
    /\ AuxOwnIdle
    /\ ClockIdle
    /\ RagIdle
    /\ WsIdle
    /\ ctext \in ChunkTexts
    /\ chunk_size \in 1..MaxChunkSize
    /\ overlap \in 0..MaxOverlap
    /\ cstart = 0
    /\ chunk_list = << >>
    /\ cpc = "idle"

ChunkFrame ==
    UNCHANGED <<session_vars, factory_vars, agent_vars, tool_vars, rest_vars,
                aux_own_vars, clock_vars, rag_vars, ws_vars, ctext, chunk_size, overlap>>

\* the call: a text no longer than chunk_size is returned as the one chunk,
\* any other text enters the loop with start = 0
ChunkBegin ==
    /\ cpc = "idle"
    /\ IF Len(ctext) <= chunk_size
       THEN /\ chunk_list' = <<ctext>>
            /\ cpc' = "done"
       ELSE /\ chunk_list' = << >>
            /\ cpc' = "loop"
    /\ cstart' = 0
    /\ ChunkFrame

\* one iteration of while start < len(text)
ChunkStep ==
    /\ cpc = "loop"
    /\ cstart < Len(ctext)
    /\ Len(chunk_list) < MaxChunks
    /\ chunk_list' = Append(chunk_list, slice(ctext, cstart, cstart + chunk_size))
    /\ cstart' = (cstart + chunk_size) - overlap
    /\ UNCHANGED cpc
    /\ ChunkFrame

\* the loop is left: return chunks
ChunkReturn ==
    /\ cpc = "loop"
    /\ cstart >= Len(ctext)
    /\ cpc' = "done"
    /\ UNCHANGED <<cstart, chunk_list>>
    /\ ChunkFrame

\* chunks.append finds no memory left: MemoryError leaves chunk_text
ChunkMemoryError ==
    /\ cpc = "loop"
    /\ cstart < Len(ctext)
    /\ Len(chunk_list) = MaxChunks
    /\ cpc' = "raised"
    /\ UNCHANGED <<cstart, chunk_list>>
    /\ ChunkFrame

ChunkNext ==
    \/ ChunkBegin
    \/ ChunkStep
    \/ ChunkReturn
    \/ ChunkMemoryError

SpecChunk == ChunkInit /\ [][ChunkNext]_vars

\* a call that is made runs: each of its steps is taken when it can be
SpecChunkFair ==
    /\ SpecChunk
    /\ WF_vars(ChunkBegin)
    /\ WF_vars(ChunkStep)
    /\ WF_vars(ChunkReturn)
    /\ WF_vars(ChunkMemoryError)

-----------------------------------------------------------------------------
(* What the claims speak of *)

History == conversation_history

\* the last operation called add_message; Added is the history it appended to
DidAdd == turn # << >>
Added == Append(before, turn[1])
DidTrim == DidAdd /\ Len(Added) > max_history

\* the last operation called get_conversation_context on the present history
ContextOps == {"get_conversation_context", "process", "stream_response"}
DidContext == op \in ContextOps

\* the budget get_conversation_context was given, and the one it applied
EffectiveBudget == IntOr(budget, max_tokens)

Projection(h) == [i \in 1..Len(h) |-> [role |-> h[i].role, content |-> h[i].content]]
Suffix(h, n) == SubSeq(h, Len(h) - n + 1, Len(h))
LastN(s, n) == IF n <= 0 THEN << >> ELSE IF n >= Len(s) THEN s ELSE Suffix(s, n)

RECURSIVE TokenSum(_)
TokenSum(ctx) ==
    IF ctx = << >> THEN 0
    ELSE calculate_token_estimate(ctx[1].content) + TokenSum(Tail(ctx))

Newest == History[Len(History)]
HasNewest ==
    /\ context # << >>
    /\ context[Len(context)] = [role |-> Newest.role, content |-> Newest.content]

SystemFirst ==
    /\ Len(History) >= 1
    /\ History[1].role = "system"
    /\ History[1].content = system_prompt

-----------------------------------------------------------------------------
(* C1: after every add_message call the history holds at most max_history *)
(* turns.                                                                  *)
C1_LengthBounded == DidAdd => Len(History) <= max_history

(* C2: add_message never removes a system-role turn: the system turns of   *)
(* the history after the call are those before it, in the same order,      *)
(* followed by the new turn when it is a system turn.                      *)
C2_SystemTurnsKept ==
    DidAdd => SelectSeq(History, IsSystem) = SelectSeq(Added, IsSystem)

\* a trim dropped a turn while a system turn stood behind a non-system one
C2_Witness ==
    /\ DidTrim
    /\ Len(History) < Len(Added)
    /\ \E i \in 2..Len(before) : IsSystem(before[i]) /\ NotSystem(before[1])

(* C3 as stated: in every reachable state (add_message, clear_history with *)
(* either keep_system, process, stream_response) a non-empty system prompt *)
(* is the first turn of the history.                                       *)
C3_Original == system_prompt # "" => SystemFirst

(* C3 as amended: as long as clear_history(keep_system=False) has not been *)
(* called, a non-empty system prompt is the first turn of the history, as  *)
(* a system-role turn.                                                     *)
C3_SystemFirst == (system_prompt # "" /\ ~cleared_all) => SystemFirst

\* clear_history(keep_system=False) never called, a process ended with a trim
C3_Witness ==
    /\ system_prompt # "" /\ ~cleared_all
    /\ op = "process_return"
    /\ DidTrim
    /\ Len(History) < Len(Added)

(* C4 as stated: max_history = 3, prompt "S"; user "A", assistant "B",     *)
(* user "C", assistant "D" leaves [S, B, C, D].                            *)
Script == <<<<"user", "A">>, <<"assistant", "B">>, <<"user", "C">>, <<"assistant", "D">>>>
ScriptRan == system_prompt = "S" /\ max_history = 3 /\ calls = Script

C4_Original ==
    ScriptRan => History = <<Message("system", "S"), Message("assistant", "B"),
                             Message("user", "C"), Message("assistant", "D")>>

(* C4 as amended: the same calls leave [S, C, D].                          *)
C4_Scenario ==
    ScriptRan => History = <<Message("system", "S"), Message("user", "C"),
                             Message("assistant", "D")>>

C4_Witness == ScriptRan /\ op = "add_message"

(* C5: when an add_message makes the history longer than max_history, the  *)
(* result is all system turns followed by the most recent                  *)
(* max_history - (number of system turns) non-system turns, in order.      *)
C5_TrimPolicy ==
    DidTrim =>
        History = SelectSeq(Added, IsSystem)
                  \o LastN(SelectSeq(Added, NotSystem),
                           max_history - Len(SelectSeq(Added, IsSystem)))

(* C6: get_conversation_context returns the {role, content} projection of  *)
(* a contiguous suffix of the history, in chronological order.             *)
C6_ContiguousSuffix ==
    DidContext =>
        /\ Len(context) <= Len(History)
        /\ context = Projection(Suffix(History, Len(context)))

\* a context of two turns that leaves an older turn out
C6_Witness ==
    /\ op = "get_conversation_context"
    /\ Len(context) >= 2
    /\ Len(context) < Len(History)

(* C7: the token counts of the turns get_conversation_context returns sum  *)
(* to at most the budget it was given, except possibly when the output is  *)
(* only the newest turn.                                                   *)
C7_WithinBudget ==
    (DidContext /\ budget # None) =>
        \/ TokenSum(context) <= budget[1]
        \/ Len(context) = 1 /\ HasNewest

(* C8 as stated: for a non-empty history the output of                     *)
(* get_conversation_context is non-empty and contains the newest turn,     *)
(* also when that turn alone exceeds the budget.                           *)
C8_Original == (DidContext /\ History # << >>) => HasNewest

(* C8 as amended: for a non-empty history the output is non-empty and ends *)
(* with the newest turn exactly when that turn's token estimate is within  *)
(* the budget applied (the argument, or self.max_tokens when the argument  *)
(* is None or 0); otherwise the output is empty.                           *)
C8_NewestIffFits ==
    (DidContext /\ History # << >>) =>
        /\ HasNewest <=> (Newest.token_count <= EffectiveBudget)
        /\ ~HasNewest => context = << >>

\* the newest turn alone exceeds the budget and nothing is returned
C8_Witness ==
    /\ DidContext /\ History # << >>
    /\ Newest.token_count > EffectiveBudget
    /\ context = << >>
    /\ Len(History) >= 2

(* C9: when the chat of the provider chat_with_fallback called raises and  *)
(* another provider is configured, the second attempt goes to a configured *)
(* provider other than the one that raised, and a successful second        *)
(* attempt is what the call returns.                                       *)
C9_FallbackToOther ==
    (Len(chat_calls) >= 1 /\ chat_calls[1] \in chat_failed
        /\ api_keys \ {chat_calls[1]} # {}) =>
        /\ Len(chat_calls) = 2
        /\ chat_calls[2] \in api_keys
        /\ chat_calls[2] # chat_calls[1]
        /\ (fpc = "done" /\ chat_calls[2] \notin chat_failed) => foutcome = "returned"

(* C10: with no provider configured chat_with_fallback raises the          *)
(* no-providers-configured error and calls no provider's chat.             *)
C10_NoProvider ==
    api_keys = {} =>
        /\ chat_calls = << >>
        /\ fpc \in {"idle", "done"}
        /\ fpc = "done" => foutcome = "No LLM providers configured"

\* a call has ended with no provider configured
C10_Witness == api_keys = {} /\ fpc = "done" /\ preferred = Some("openai")

(* C11: one chat_with_fallback call makes at most two chat invocations,    *)
(* and when the fallback's chat raises the call ends with that error and   *)
(* no further invocation.                                                  *)
C11_SingleHop ==
    /\ Len(chat_calls) <= 2
    /\ fpc = "fallback" => foutcome = "none"
    /\ foutcome = "chat raised" =>
           /\ fpc = "done"
           /\ chat_calls # << >>
           /\ chat_calls[Len(chat_calls)] \in chat_failed

\* the primary's chat raised, then the fallback's chat raised
C11_Witness ==
    /\ fpc = "done"
    /\ foutcome = "chat raised"
    /\ Len(chat_calls) = 2
    /\ chat_calls[1] # chat_calls[2]

(* C12: process calls the provider through the fallback policy: a process  *)
(* call does not end after its provider's chat raised while a provider     *)
(* whose chat has not raised is configured, unless that provider's chat    *)
(* was called too.                                                         *)
C12_ThroughFallback ==
    (pc = "idle" /\ chat_failed # {} /\ api_keys \ chat_failed # {}) =>
        /\ Len(chat_calls) = 2
        /\ chat_calls[2] \in api_keys \ chat_failed

(* C13: when the response of client.chat holds tool calls, process has the *)
(* batch executed, adds a tool-role turn per result and calls the provider *)
(* again before it adds the final assistant turn.                          *)
C13_ToolLoop ==
    (op = "process_return" /\ response # None /\ response[1].tool_uses # << >>) =>
        /\ Len(chat_calls) >= 2
        /\ \E i \in 1..Len(History) : History[i].role = "tool"

\* the system turns of a history, and its last turn
NSys(h) == Len(SelectSeq(h, IsSystem))
Last(h) == h[Len(h)]
Apology == Message("assistant", error_msg)

(* C14: a process call that fails ends by raising, never by returning a    *)
(* result, and its handler has added the apology as an assistant turn: the *)
(* apology is the newest turn of the history (whenever the history does    *)
(* not hold more system turns than max_history, in which case trimming     *)
(* leaves no room for any other turn).                                     *)
C14_ApologyAndRaise ==
    /\ op = "process_raise" =>
           /\ outcome = "raised"
           /\ pc = "idle"
           /\ turn = <<Apology>>
           /\ NSys(before) <= max_history =>
                  /\ History # << >>
                  /\ Last(History) = Apology
    /\ (op = "process_return" /\ outcome = "returned") => Last(History) # Apology

\* a failed call on a history the apology made longer than max_history
C14_Witness ==
    /\ op = "process_raise"
    /\ outcome = "raised"
    /\ Last(History) = Apology
    /\ DidTrim

(* C15: what process has added to the history is not taken back.  While   *)
(* the provider is called the user turn is the newest turn; when the call  *)
(* then fails the history is the one the provider was called on with the   *)
(* apology added under the usual trimming, and when it is abandoned the    *)
(* history is left as it was.                                              *)
C15_NoRollback ==
    /\ pc = "chat" =>
           /\ op = "process"
           /\ turn # << >> /\ turn[1].role = "user"
           /\ NSys(before) <= max_history => Last(History) = turn[1]
    /\ (op \in {"process_raise", "process_abandon"} /\ NSys(before) <= max_history) =>
           Last(before).role = "user"
    /\ op = "process_raise" =>
           /\ History = trim_history(Append(before, Apology), max_history)
           /\ Len(before) < max_history => History = Append(before, Apology)
    /\ op = "process_abandon" => History = before

\* a failed call has left the user turn, followed by the apology
C15_Witness ==
    /\ op = "process_raise"
    /\ Len(before) < max_history
    /\ Len(History) = 2
    /\ History[1].role = "user"
    /\ Last(History) = Apology

\* execute_tools has ended; the names of the tool calls of its batch
BatchEnded == tpc = "done"
BatchReturned == tpc = "done" /\ texc = None

(* C16: execute_tools returns one result per tool call of the batch, in    *)
(* the order of the batch: as many results as tool calls, the i-th result  *)
(* being that of the i-th tool call.                                       *)
C16_OneResultEach ==
    BatchReturned =>
        /\ Len(results) = Len(tool_calls)
        /\ \A i \in 1..Len(results) :
               Some(results[i].tool) = tool_name_of(tool_calls[i])

(* C17: no tool call of a batch ends execute_tools early: whatever fails   *)
(* (an unregistered tool, a raising handler, arguments that do not         *)
(* decode), the call returns and its loop has been through every tool call.*)
C17_IndependentFailures ==
    BatchEnded =>
        /\ texc = None
        /\ ti = Len(tool_calls) + 1

\* the last execute_tool call
Call == last_call[1]
CallResult == Call.outcome.value

(* C18: execute_tool with a name that is not registered returns (does not  *)
(* raise) a result with success false and the tool-not-found error, enters *)
(* no tool's execute, and leaves the registry as it was.                   *)
C18_UnknownTool ==
    (last_call # None /\ get_tool(Call.registry, Call.name) = None) =>
        /\ Call.outcome.ok
        /\ CallResult.success = FALSE
        /\ CallResult.error = Some("Tool '" \o Call.name \o "' not found")
        /\ CallResult.result = None
        /\ CallResult.tool = Call.name
        /\ ~Call.outcome.ran
        /\ tools = Call.registry

\* an unregistered name met inside a batch, after a tool that ran
C18_Witness ==
    /\ last_call # None
    /\ Call.name = "nope"
    /\ tpc = "loop"
    /\ Len(results) = 2
    /\ results[2].success = FALSE

\* the exception a tool's execute ends with, if any
CallTool == get_tool(Call.registry, Call.name)[1]
CallRaises == ~tool_execute(CallTool, Call.parameters, Call.behaviour).ok
CallError == tool_execute(CallTool, Call.parameters, Call.behaviour).error

(* C19: when a registered tool's execute raises, execute_tool returns      *)
(* (does not raise) a result with success false and the exception's        *)
(* message as error; when it returns a value, execute_tool returns a       *)
(* result with success true that holds the value.                          *)
C19_HandlerOutcome ==
    (last_call # None /\ get_tool(Call.registry, Call.name) # None) =>
        /\ Call.outcome.ok
        /\ CallRaises =>
               /\ CallResult.success = FALSE
               /\ CallResult.error = Some(CallError)
               /\ CallResult.result = None
        /\ (~CallRaises /\ Call.behaviour = "value") =>
               /\ CallResult.success = TRUE
               /\ CallResult.result = Some("42")
               /\ CallResult.error = None
        /\ (~CallRaises /\ Call.behaviour = "failed") =>
               /\ CallResult.success = FALSE
               /\ CallResult.error # None

\* a plain MCPTool was registered under the name of the built-in
\* calculator; called inside a batch with the calculator's argument its
\* execute raised NotImplementedError, and the batch went on
C19_Witness ==
    /\ last_call # None
    /\ Call.name = "calculator"
    /\ CallTool.class = "MCPTool"
    /\ Call.parameters = Expression
    /\ CallRaises
    /\ Call.outcome.ran
    /\ CallResult.success = FALSE
    /\ CallResult.error = Some("Subclasses must implement execute method")
    /\ tpc = "loop"
    /\ Len(results) = 2
    /\ results[1].success

\* the chat requests whose process awaits client.chat on the agent of agent_id
InFlight(agent_id) ==
    {q \in DOMAIN requests : requests[q].pc = "chat" /\ requests[q].agent_id = agent_id}

(* C20: no two process calls are in flight on one agent at a time: between *)
(* a call's user turn and its assistant turn no other call has added to    *)
(* that agent's history.                                                   *)
C20_OneInFlight ==
    \A agent_id \in AgentIds : Cardinality(InFlight(agent_id)) <= 1

(* C27: add_message recomputes the cumulative token count: every           *)
(* add_message call that adds a turn with a non-zero token estimate        *)
(* changes total_tokens_used.                                              *)
C27_TokensRecomputed ==
    [][(op' = "add_message" /\ turn'[1].token_count > 0) =>
           total_tokens_used' # total_tokens_used]_vars

(* C28: clear_history(keep_system=True) leaves exactly the system turns of *)
(* the history it was called on, in their order; clear_history with        *)
(* keep_system=False leaves an empty history.                              *)
C28_ClearHistory ==
    /\ op = "clear_history" =>
           /\ \A i \in 1..Len(History) : History[i].role = "system"
           /\ History = SelectSeq(before, IsSystem)
    /\ op = "clear_history_all" => History = << >>

\* two system turns and another turn were there; the two are left
C28_Witness ==
    /\ op = "clear_history"
    /\ Len(History) = 2
    /\ Len(before) = 3
    /\ History[1] # History[2]

\* the price table of process, in micro-dollars per input and output token
Price(r) ==
    IF r.model = "claude-3-5-sonnet-20241022" THEN 3 * r.input_tokens + 15 * r.output_tokens
    ELSE IF r.model = "gpt-4-turbo-preview" THEN 10 * r.input_tokens + 30 * r.output_tokens
    ELSE 0

(* C26: a process call that returns has added to total_cost the price of   *)
(* the response's input and output tokens at its model's rates, and        *)
(* nothing for a model the price table does not hold; such a response      *)
(* is returned like any other.                                             *)
C26_CostAdded ==
    [][(pc = "chat" /\ op' = "process_return") =>
           /\ response' # None
           /\ outcome' = "returned"
           /\ total_cost' = total_cost + Price(response'[1])]_vars

\* a priced turn, then a turn whose model the price table does not hold
C26_Witness ==
    /\ op = "process_return"
    /\ outcome = "returned"
    /\ response # None
    /\ response[1].model = "gpt-3.5-turbo"
    /\ response[1].input_tokens > 0
    /\ total_cost = 40

(* C30: a process call invokes the provider a bounded number of times (at  *)
(* most once), and, given that the provider call it awaits returns or      *)
(* raises, it ends with a returned result or a raised error.               *)
C30_BoundedAndEnds ==
    /\ [](Len(chat_calls) <= 1)
    /\ (pc = "chat") ~> (pc = "idle" /\ outcome \in {"returned", "raised"})

\* a call whose response held tool calls has returned after one invocation
C30_Witness ==
    /\ pc = "idle"
    /\ outcome = "returned"
    /\ response # None
    /\ response[1].tool_uses # << >>
    /\ Len(chat_calls) = 1

RECURSIVE Concat(_)
\* the chunks of a sequence put together in order
Concat(chunks) == IF chunks = << >> THEN "" ELSE chunks[1] \o Concat(Tail(chunks))

(* C23: while a stream yields its chunks no turn is added to the history;  *)
(* when the stream has been consumed to its end one assistant turn is      *)
(* added, whose content is the chunks yielded, put together in order.      *)
C23_StreamedTurn ==
    /\ [](pc = "stream" =>
             /\ op = "stream_response"
             /\ History = trim_history(Added, max_history))
    /\ [][(pc = "stream" /\ op' = "stream_end") =>
             /\ turn' = <<Message("assistant", Concat(yielded))>>
             /\ History' = trim_history(Append(History, turn'[1]), max_history)
             /\ Len(History) < max_history => History' = Append(History, turn'[1])]_vars

\* two different chunks were yielded and the turn holds both
C23_Witness ==
    /\ op = "stream_end"
    /\ turn = <<Message("assistant", "abcd")>>
    /\ Last(History) = turn[1]

\* the fields of an agent the claim names
Fields(s) ==
    <<s.conversation_history, s.max_history, s.max_tokens, s.total_tokens_used,
      s.total_cost>>

(* C21: an operation on one agent (process, add_message, clear_history)    *)
(* leaves the history, max_history, max_tokens, total_tokens_used and      *)
(* total_cost of every other agent as they were, however the agents' calls *)
(* interleave.                                                             *)
C21_Independent ==
    [][\A b \in SessionIds :
          actor' # Some(b) => Fields(sessions'[b]) = Fields(sessions[b])]_vars

\* agent A was operated on while agent B's process awaited its provider
C21_Witness ==
    /\ actor = Some("A")
    /\ sessions["B"].pc = "chat"
    /\ Len(sessions["A"].conversation_history) >= 2
    /\ sessions["A"].total_tokens_used > 0
    /\ Fields(sessions["A"]) # Fields(sessions["B"])

(* C22: in VoiceAgent.process a failure of speech synthesis, a failure to  *)
(* construct the speech client included, does not fail the turn: the call  *)
(* returns the text result with "audio" set to None, and the history,      *)
(* total_tokens_used and total_cost are what a successful synthesis leaves *)
(* them: those super().process left, untouched by the synthesis.           *)
C22_TtsNonFatal ==
    [][/\ pc = "tts" =>
              /\ pc' = "idle"
              /\ outcome' = "returned"
              /\ History' = History
              /\ total_tokens_used' = total_tokens_used
              /\ total_cost' = total_cost
              /\ tts_client' = tts_client
              /\ voice_result' # None
              /\ voice_result'[1].response = voice_result[1].response
              /\ voice_result'[1].response = Last(History).content
              /\ voice_result'[1].has_audio
              /\ op' = "tts_raise" <=> voice_result'[1].audio = None
       /\ (pc = "chat" /\ op' = "process_return" /\ generate_audio /\ pc' # "tts") =>
              /\ tts_client = None /\ ~elevenlabs_api_key
              /\ pc' = "idle"
              /\ outcome' = "returned"
              /\ voice_result' # None
              /\ voice_result'[1].has_audio
              /\ voice_result'[1].audio = None
              /\ \E r \in Responses :
                     /\ voice_result'[1].response = r.content
                     /\ History' = add_message(History, max_history, "assistant", r.content)
                     /\ total_tokens_used' =
                            total_tokens_used + r.input_tokens + r.output_tokens
                     /\ total_cost' = total_cost + response_cost(r)]_vars

\* the speech client could not be constructed and the turn returned its text
C22_Witness ==
    /\ op = "process_return"
    /\ outcome = "returned"
    /\ generate_audio
    /\ tts_client = None
    /\ ~elevenlabs_api_key
    /\ voice_result # None
    /\ voice_result[1].response = "abcdefgh"
    /\ voice_result[1].has_audio
    /\ voice_result[1].audio = None
    /\ total_tokens_used > 0

\* every tool registered so far, the built-in ones first
AllRegistered == DefaultTools \o registered

RegisteredNames == {AllRegistered[i].name : i \in 1..Len(AllRegistered)}

\* the tool most recently registered under the name
LastRegistered(name) ==
    AllRegistered[CHOOSE i \in 1..Len(AllRegistered) :
                      /\ AllRegistered[i].name = name
                      /\ \A j \in (i + 1)..Len(AllRegistered) : AllRegistered[j].name # name]

(* C29: after any sequence of register calls the registry holds exactly   *)
(* one tool per distinct name registered, that tool is the one most        *)
(* recently registered under the name, and list_tools returns exactly one  *)
(* schema per distinct name, the schema of that tool.                      *)
C29_UniqueNames ==
    /\ {tools[i].name : i \in 1..Len(tools)} = RegisteredNames
    /\ Len(tools) = Cardinality(RegisteredNames)
    /\ Len(list_tools(tools)) = Cardinality(RegisteredNames)
    /\ \A name \in RegisteredNames :
          /\ Cardinality({i \in 1..Len(tools) : tools[i].name = name}) = 1
          /\ get_tool(tools, name) = Some(LastRegistered(name))
          /\ Cardinality({i \in 1..Len(tools) :
                             list_tools(tools)[i].name = name}) = 1
          /\ \E i \in 1..Len(tools) :
                 list_tools(tools)[i] = get_schema(LastRegistered(name))

\* a built-in name and a new name were each registered, the new name twice
\* with different tools
C29_Witness ==
    /\ Len(registered) = 3
    /\ registered[1].name = "custom"
    /\ registered[2].name = "calculator"
    /\ registered[3].name = "custom"
    /\ registered[3] # registered[1]
    /\ Len(tools) = 6

\* the last execute of a built-in tool
Builtin == builtin_call[1]

\* the characters the claim lets through: digits, arithmetic operators,
\* parentheses, whitespace
ArithmeticChars == Digits \cup {"+", "-", "*", "/", "(", ")", " "}

(* C25: for every expression holding a character that is not a digit, an   *)
(* arithmetic operator, a parenthesis or whitespace, the calculator's      *)
(* result has success false with the error "Invalid characters in          *)
(* expression", and the expression is not evaluated.                       *)
C25_RejectsBeforeEval ==
    (/\ builtin_call # None
     /\ Builtin.tool = "calculator"
     /\ \E i \in 1..Len(Builtin.input) : Builtin.input[i] \notin ArithmeticChars) =>
        /\ ~Builtin.out.success
        /\ Builtin.out.error = Some("Invalid characters in expression")
        /\ ~Builtin.evaluated

\* the names from the root to where an absolute, normalised path points
Names(path) == SelectSeq(split(path), LAMBDA comp : comp # << >>)

\* the path that file_path resolves to lies outside the base directory
Outside(file_path) ==
    LET base == Names(abspath(base_path))
        resolved == Names(abspath(os_path_join(base_path, file_path)))
    IN  ~(Len(base) <= Len(resolved) /\ SubSeq(resolved, 1, Len(base)) = base)

(* C24: for every file_path whose resolved absolute path lies outside the  *)
(* base directory, the file-read tool's result has success false with the  *)
(* error "Invalid file path", and no file is opened.                       *)
C24_Confined ==
    (/\ builtin_call # None
     /\ Builtin.tool = "file_read"
     /\ Outside(Builtin.input)) =>
        /\ ~Builtin.out.success
        /\ Builtin.out.error = Some("Invalid file path")
        /\ ~Builtin.opened

\* the budget the caller asked for: the argument, or self.max_tokens when
\* no argument was given
GivenBudget == IF budget = None THEN max_tokens ELSE budget[1]

(* C31: get_conversation_context returns the longest suffix of the history *)
(* whose token counts sum to at most the budget: walking from the newest   *)
(* turn it stops at the first turn that would push the sum over the        *)
(* budget, so the output is the whole history or the next older turn would *)
(* exceed the budget, and nothing older than that turn is included.        *)
C31_GreedySuffix ==
    DidContext =>
        /\ Len(context) <= Len(History)
        /\ context = Projection(Suffix(History, Len(context)))
        /\ TokenSum(context) <= GivenBudget
        /\ \/ Len(context) = Len(History)
           \/ TokenSum(context) + History[Len(History) - Len(context)].token_count
                  > GivenBudget

(* C32: when an add_message does not make the history longer than          *)
(* max_history it only appends: the history after the call is the history  *)
(* before it, unchanged in content and order, followed by the new turn,    *)
(* and the turn returned is that last element.                             *)
C32_OnlyAppends ==
    (DidAdd /\ Len(before) + 1 <= max_history) =>
        /\ Len(History) = Len(before) + 1
        /\ SubSeq(History, 1, Len(before)) = before
        /\ History[Len(History)] = turn[1]

\* a user turn was added to a history of one turn, within max_history
C32_Witness ==
    /\ op = "add_message"
    /\ Len(before) = 1
    /\ max_history = 2
    /\ turn[1].role = "user"
    /\ History = <<before[1], turn[1]>>
    /\ before[1] # turn[1]

(* C33: when the provider fails during a stream_response, an assistant     *)
(* apology turn is recorded in the history before the error reaches the    *)
(* caller, as process() does.                                              *)
C33_StreamApology ==
    op = "stream_raise" =>
        /\ outcome = "raised"
        /\ History # << >>
        /\ History[Len(History)] = Message("assistant", error_msg)

(* C34: in every reachable history the turns have pairwise distinct ids,   *)
(* also when turns are created one after the other within one clock        *)
(* reading.                                                                *)
C34_UniqueIds ==
    \A i, j \in 1..Len(History) : i # j => History[i].id # History[j].id

(* C35: the context string retrieve_with_context returns is never longer   *)
(* than max_context_length characters, whatever documents were retrieved   *)
(* and whatever max_context_length is.                                     *)
C35_ContextBounded ==
    rag_context # None => Len(rag_context[1].context) <= max_context_length

\* the last provider call
Invoked == invocation[1]
HasSystemTurn(ctx) == \E i \in 1..Len(ctx) : ctx[i].role = "system"

(* C36: in every provider call made by process or stream_response, either  *)
(* the context passed holds a system-role turn and no system_prompt        *)
(* argument is passed, or the context holds no system-role turn and the    *)
(* session's system prompt is passed as the argument; never both and never *)
(* neither.                                                                *)
C36_SystemOnce ==
    invocation # None =>
        /\ Invoked.messages = context \/ pc = "idle"
        /\ \/ HasSystemTurn(Invoked.messages) /\ Invoked.system_prompt = None
           \/ /\ ~HasSystemTurn(Invoked.messages)
              /\ Invoked.system_prompt = Some(system_prompt)
              /\ system_prompt # ""

\* a streamed turn whose context the budget cut down to the user turn, the
\* system prompt going as the argument
C36_Witness ==
    /\ invocation # None
    /\ pc = "stream"
    /\ Invoked.by = "stream_response"
    /\ Len(Invoked.messages) = 1
    /\ Invoked.messages[1].role = "user"
    /\ Invoked.system_prompt = Some(system_prompt)
    /\ History[1].role = "system"


\* the usage counters are left as they were by a step
CountersKept ==
    /\ total_tokens_used' = total_tokens_used
    /\ total_cost' = total_cost

(* C37: total_tokens_used and total_cost never decrease, and a step that   *)
(* changes either of them is the end of a process call that returns: a     *)
(* process call that fails or is abandoned, every step of stream_response, *)
(* add_message, get_conversation_context and clear_history leave both as   *)
(* they were.                                                              *)
C37_CountersFrame ==
    [][/\ total_tokens_used' >= total_tokens_used
       /\ total_cost' >= total_cost
       /\ ~CountersKept =>
              /\ pc = "chat"
              /\ op' = "process_return"
              /\ outcome' = "returned"
       /\ (\/ op' \in {"process_raise", "process_abandon", "stream_response",
                       "stream_end", "stream_raise", "clear_history",
                       "clear_history_all", "add_message",
                       "get_conversation_context"}
           \/ pc = "stream") => CountersKept]_vars

\* a failed call after a call that was charged: the counters are kept
C37_Witness ==
    /\ op = "process_raise"
    /\ outcome = "raised"
    /\ total_tokens_used = 15
    /\ total_cost = 105


\* an output whose success, error and result agree
Consistent(output) ==
    /\ output.success = (output.error = None)
    /\ ~output.success => output.result = None

(* C38: every output a built-in tool returns from execute, and every       *)
(* output execute_tool returns (for a tool that is not registered, for a   *)
(* tool that returns its own output and for a tool that raises), has       *)
(* success true exactly when its error is None, and a None result when     *)
(* success is false.                                                       *)
C38_OutputsConsistent ==
    /\ builtin_call # None => Consistent(builtin_call[1].out)
    /\ last_call # None =>
           /\ last_call[1].outcome.ok
           /\ Consistent(last_call[1].outcome.value)

\* the built-in calculator was replaced by a plain MCPTool and then by a
\* fresh CalculatorTool, which raised under execute_tool for want of its
\* argument: the output built by the registry reports the failure
C38_Witness ==
    /\ last_call # None
    /\ Len(registered) = 2
    /\ registered[1] = MCPTool("calculator", "first", <<"x">>)
    /\ registered[2] = DefaultTools[2]
    /\ last_call[1].name = "calculator"
    /\ last_call[1].parameters = Dict({})
    /\ ~last_call[1].outcome.ran
    /\ ~last_call[1].outcome.value.success
    /\ last_call[1].outcome.value.error =
           Some("CalculatorTool.execute() missing 1 required positional argument: 'expression'")
    /\ last_call[1].outcome.value.result = None


(* C39: in the WebSocket layer the pong, response or error that answers a  *)
(* message received on a connection is sent on that connection, or not at  *)
(* all, and a handler that ends because its connection was closed deletes  *)
(* no registration but that of its own websocket; two connections opened   *)
(* with one client_id are among the cases.                                 *)
C39_OwnConnection ==
    /\ ws_sent # None => ws_sent[1].on \in {None, Some(ws_sent[1].by)}
    /\ (ws_removed # None /\ ws_removed[1].cause = "close") =>
           ws_removed[1].removed \in {None, Some(ws_removed[1].by)}


(* C40: every chunk_text call returns: for every text, every chunk_size    *)
(* of at least 1 and every overlap of at least 0, overlap >= chunk_size    *)
(* included, a call that has been made ends with its list of chunks.       *)
C40_Terminates == (cpc = "idle") ~> (cpc = "done")

\* the calls that do not return are those with overlap >= chunk_size and a
\* text longer than chunk_size
C40_RaisesOnlyStuck ==
    cpc = "raised" => (overlap >= chunk_size /\ Len(ctext) > chunk_size)

\* a call that returns has made no more chunks than the text has characters
C40_ReturnsShort ==
    cpc = "done" => Len(chunk_list) <= Len(ctext) \/ chunk_list = <<ctext>>

=============================================================================
